---------------------------- MODULE Spec2Model ----------------------------
(***************************************************************************)
(* A model of the udger-nodejs parser handle (class UdgerParser of         *)
(* src/examples/connectInfo.js): the connection flag, the held ua / ip,    *)
(* the result cache, and the classification cascade of parseUa / parseIp   *)
(* over the in-memory tables produced by src/convert.js.                   *)
(*                                                                         *)
(* Representation of JavaScript values                                     *)
(*   string     a sequence of one-character strings; constant text of the  *)
(*              program and opaque dataset labels are kept as one element  *)
(*              (Lit("Crawler") = <<"Crawler">>), text that is matched,    *)
(*              split, trimmed or lower-cased is kept character by         *)
(*              character.  Concatenation is \o.                           *)
(*   undefined  UndefS where a string is expected, NullIdx where a number  *)
(*              (an id or a row index) is expected; null is treated alike  *)
(*   object     a function from property names to values; {} is <<>>       *)
(*   table row  a sequence of cells, addressed through the table's         *)
(*              columns map (0-based, as in the JSON file)                 *)
(***************************************************************************)
EXTENDS Integers, Sequences, FiniteSets, TLC

VARIABLES
    db,               \* this.db: TRUE when a Database object is held, FALSE when null
    ua,               \* this.ua
    ip,               \* this.ip
    cacheEnable,      \* this.cacheEnable
    cacheMaxRecords,  \* this.cacheMaxRecords
    cache,            \* this.cache: sequence of [key, val] in Object.keys order
    keyCache,         \* this.keyCache
    retUa,            \* this.retUa
    retIp,            \* this.retIp
    data,             \* this.data: the tables of out/udgerdb_v3.json
    call,             \* the last call made on the handle: [op, arg]
    ret,              \* how that call ended: [threw, val, hit]
    ncalls,           \* number of calls made so far
    setCalled         \* TRUE once set() has been called on the handle

vars == <<db, ua, ip, cacheEnable, cacheMaxRecords, cache, keyCache,
          retUa, retIp, data, call, ret, ncalls, setCalled>>

handle == <<db, ua, ip, cacheEnable, cacheMaxRecords, cache, keyCache, retUa, retIp>>

-----------------------------------------------------------------------------
(* Bounds of the model                                                     *)

\* calls made on one handle in one behaviour
MaxCalls == 4

-----------------------------------------------------------------------------
(* JavaScript values                                                       *)

Lit(s) == <<s>>

EmptyStr == <<>>

UndefS == <<"<undefined>">>

NullS == <<"<null>">>

NullIdx == 0 - 2

EmptyObj == <<>>

\* the element of a one-element set: Only({ e(x) : x \in {v} }) is e(v), with
\* the value v worked out once
Only(S) == CHOOSE x \in S : TRUE

\* the function f with its values worked out, where TLC would keep the
\* expression that defines f until f is applied
Eager(f) == f @@ <<>>

\* a value in boolean position: '', undefined and null are falsy
Truthy(s) == s # EmptyStr /\ s # UndefS /\ s # NullS

\* x || ''
OrEmpty(s) == IF Truthy(s) THEN s ELSE EmptyStr

\* the text JavaScript concatenates for a value: undefined prints as "undefined"
JsStr(s) == IF s = UndefS THEN Lit("undefined") ELSE IF s = NullS THEN Lit("null") ELSE s

\* obj[k], undefined when the property is absent
PropS(obj, k) == IF k \in DOMAIN obj THEN obj[k] ELSE UndefS

PropI(obj, k) == IF k \in DOMAIN obj THEN obj[k] ELSE NullIdx

\* { ...a, ...b }
Spread(a, b) ==
    Eager([k \in (DOMAIN a) \cup (DOMAIN b) |-> IF k \in DOMAIN b THEN b[k] ELSE a[k]])

\* obj with obj[k] = v
SetProp(obj, k, v) == Eager([x \in (DOMAIN obj) \cup {k} |-> IF x = k THEN v ELSE obj[x]])

\* delete obj[k]
DelProp(obj, k) == Eager([x \in (DOMAIN obj) \ {k} |-> obj[x]])

-----------------------------------------------------------------------------
(* Text operations (String.prototype)                                      *)

UpperLetters ==
    <<"A","B","C","D","E","F","G","H","I","J","K","L","M",
      "N","O","P","Q","R","S","T","U","V","W","X","Y","Z">>

LowerLetters ==
    <<"a","b","c","d","e","f","g","h","i","j","k","l","m",
      "n","o","p","q","r","s","t","u","v","w","x","y","z">>

DigitChars == {"0","1","2","3","4","5","6","7","8","9"}

LowerChar(c) ==
    IF \E i \in 1..Len(UpperLetters) : UpperLetters[i] = c
    THEN LowerLetters[CHOOSE i \in 1..Len(UpperLetters) : UpperLetters[i] = c]
    ELSE c

\* s.toLowerCase()
ToLowerCase(s) == [i \in 1..Len(s) |-> LowerChar(s[i])]

\* s.split('.')[0]
SplitDot0(s) ==
    LET dots == {i \in 1..Len(s) : s[i] = "."}
    IN  IF dots = {} THEN s
        ELSE SubSeq(s, 1, (CHOOSE i \in dots : \A j \in dots : i <= j) - 1)

\* s.trim()
Trim(s) ==
    LET ink == {i \in 1..Len(s) : s[i] # " "}
    IN  IF ink = {} THEN EmptyStr
        ELSE SubSeq(s, CHOOSE i \in ink : \A j \in ink : i <= j,
                       CHOOSE i \in ink : \A j \in ink : i >= j)

-----------------------------------------------------------------------------
(* Pattern translator and matcher.  A regstring cell is the vendor form    *)
(* /pattern/flags.  The patterns of the model's tables are literal text    *)
(* optionally followed by one capture group, (#) for [0-9.]+ and (@) for   *)
(* [^;]+ .                                                                 *)

LastSlash(rs) == CHOOSE i \in 1..Len(rs) : rs[i] = "/" /\ \A j \in (i+1)..Len(rs) : rs[j] # "/"

\* utils.phpRegexpToJs: strip the delimiters, keep the i flag, drop the s flag
phpRegexpToJs(rs) ==
    [source     |-> SubSeq(rs, 2, LastSlash(rs) - 1),
     ignoreCase |-> \E j \in (LastSlash(rs)+1)..Len(rs) : rs[j] = "i"]

HasGroup(src) == Len(src) >= 3 /\ src[Len(src)] = ")" /\ src[Len(src) - 2] = "("

LiteralOf(src) == IF HasGroup(src) THEN SubSeq(src, 1, Len(src) - 3) ELSE src

InClass(c, cls) == IF cls = "#" THEN c \in DigitChars \cup {"."} ELSE c # ";"

Fold(c, ic) == IF ic THEN LowerChar(c) ELSE c

LiteralAt(str, i, lit, ic) ==
    /\ i + Len(lit) - 1 <= Len(str)
    /\ \A k \in 1..Len(lit) : Fold(str[i + k - 1], ic) = Fold(lit[k], ic)

\* last index of the greedy run of class characters starting at j (j-1: empty run)
RunEnd(str, j, cls) ==
    CHOOSE e \in (j-1)..Len(str) :
        /\ \A k \in j..e : InClass(str[k], cls)
        /\ (e = Len(str) \/ ~InClass(str[e + 1], cls))

MatchAt(str, i, re) ==
    LET lit == LiteralOf(re.source)
        j   == i + Len(lit)
    IN  /\ LiteralAt(str, i, lit, re.ignoreCase)
        /\ HasGroup(re.source) => RunEnd(str, j, re.source[Len(re.source) - 1]) >= j

\* str.match(re) for a non-global re: null, or the array [match, group 1]
NoMatch == [found |-> FALSE, g1 |-> UndefS]

JsMatch(str, re) ==
    LET at == {i \in 1..(Len(str) + 1) : MatchAt(str, i, re)}
    IN  IF at = {} THEN NoMatch
        ELSE LET i == CHOOSE i \in at : \A k \in at : i <= k
                 j == i + Len(LiteralOf(re.source))
             IN  [found |-> TRUE,
                  g1    |-> IF HasGroup(re.source)
                            THEN SubSeq(str, j, RunEnd(str, j, re.source[Len(re.source) - 1]))
                            ELSE UndefS]

-----------------------------------------------------------------------------
(* dot-prop on the nested output.  A nested object is a function from      *)
(* property paths to leaf values; an object left without properties is the *)
(* leaf ObjV.                                                              *)

ObjV == <<"<object>">>

IsPrefix(p, q) == Len(p) <= Len(q) /\ SubSeq(q, 1, Len(p)) = p

\* dotProp.set(obj, path, value)
DotSet(obj, path, v) ==
    Only({ Eager([q \in {p \in DOMAIN o : ~IsPrefix(p, path) /\ ~IsPrefix(path, p)}
                        \cup {path} |->
                    IF q = path THEN v ELSE o[q]])
           : o \in {obj} })

\* value && dotProp.set(obj, path, value)
DotSetIf(obj, path, v) == IF Truthy(v) THEN DotSet(obj, path, v) ELSE obj

\* a run of value && dotProp.set(obj, path, value) statements, in order
RECURSIVE DotSetAllIf(_, _)
DotSetAllIf(obj, sets) ==
    Only({ IF sets = <<>> THEN o
           ELSE IF Len(sets) = 1 THEN DotSetIf(o, sets[1][1], sets[1][2])
           ELSE \* the first half of the run, then the rest of it
                DotSetAllIf(DotSetAllIf(o, SubSeq(sets, 1, Len(sets) \div 2)),
                            SubSeq(sets, Len(sets) \div 2 + 1, Len(sets)))
           : o \in {obj} })

\* dotProp.delete(obj, path)
DotDelete(obj, path) ==
    Only({ LET gone   == {q \in DOMAIN o : IsPrefix(path, q)}
               keep   == (DOMAIN o) \ gone
               parent == SubSeq(path, 1, Len(path) - 1)
               orphan == gone # {} /\ parent # <<>> /\ ~\E q \in keep : IsPrefix(parent, q)
           IN  Eager([q \in keep \cup (IF orphan THEN {parent} ELSE {}) |->
                        IF q \in keep THEN o[q] ELSE ObjV])
           : o \in {obj} })

-----------------------------------------------------------------------------
(* The dataset: this.data, read from the JSON file written by convert.js.  *)
(* Every table is {columns, data}: columns maps a column name to its       *)
(* position, data is the list of raw rows.  convert.js sorts the pattern   *)
(* tables by their sequence column and replaces each foreign id by the     *)
(* position of the row it names (NullIdx when it names none).  Row ids are *)
(* the positive integers of the SQLite file.                               *)

\* prepareColumns: the columns of each table, by position
Columns ==
    [
     udger_crawler_list |->
        [id |-> 0, ua_string |-> 1, ver |-> 2, ver_major |-> 3, class_id |-> 4, last_seen |-> 5, respect_robotstxt |-> 6, family |-> 7, family_code |-> 8, family_homepage |-> 9, family_icon |-> 10, vendor |-> 11, vendor_code |-> 12, vendor_homepage |-> 13, name |-> 14],
     udger_crawler_class |->
        [id |-> 0, crawler_classification |-> 1, crawler_classification_code |-> 2],
     udger_client_regex |->
        [client_id |-> 0, word_id |-> 1, word2_id |-> 2, sequence |-> 3, regstring |-> 4],
     udger_client_list |->
        [id |-> 0, class_id |-> 1, name |-> 2, name_code |-> 3, homepage |-> 4, icon |-> 5, icon_big |-> 6, engine |-> 7, vendor |-> 8, vendor_code |-> 9, vendor_homepage |-> 10, uptodate_current_version |-> 11],
     udger_client_class |->
        [id |-> 0, client_classification |-> 1, client_classification_code |-> 2, deviceclass_id |-> 3],
     udger_os_regex |->
        [os_id |-> 0, word_id |-> 1, word2_id |-> 2, sequence |-> 3, regstring |-> 4],
     udger_os_list |->
        [id |-> 0, family |-> 1, family_code |-> 2, name |-> 3, name_code |-> 4, homepage |-> 5, icon |-> 6, icon_big |-> 7, vendor |-> 8, vendor_code |-> 9, vendor_homepage |-> 10],
     udger_client_os_relation |->
        [client_id |-> 0, os_id |-> 1],
     udger_deviceclass_regex |->
        [deviceclass_id |-> 0, word_id |-> 1, word2_id |-> 2, sequence |-> 3, regstring |-> 4],
     udger_deviceclass_list |->
        [id |-> 0, name |-> 1, name_code |-> 2, icon |-> 3, icon_big |-> 4],
     udger_devicename_regex |->
        [id |-> 0, os_family_code |-> 1, os_code |-> 2, sequence |-> 3, regstring |-> 4],
     udger_devicename_list |->
        [regex_id |-> 0, brand_id |-> 1, code |-> 2, marketname |-> 3],
     udger_devicename_brand |->
        [id |-> 0, brand |-> 1, brand_code |-> 2, brand_url |-> 3, icon |-> 4, icon_big |-> 5],
     udger_ip_list |->
        [ip |-> 0, class_id |-> 1, crawler_id |-> 2, ip_last_seen |-> 3, ip_hostname |-> 4, ip_country |-> 5, ip_city |-> 6, ip_country_code |-> 7],
     udger_ip_class |->
        [id |-> 0, ip_classification |-> 1, ip_classification_code |-> 2, sequence |-> 3],
     udger_datacenter_range |->
        [datacenter_id |-> 0, ip_from |-> 1, ip_to |-> 2, iplong_from |-> 3, iplong_to |-> 4],
     udger_datacenter_range6 |->
        [datacenter_id |-> 0, ip_from |-> 1, ip_to |-> 2, iplong_from0 |-> 3, iplong_from1 |-> 4, iplong_from2 |-> 5, iplong_from3 |-> 6, iplong_from4 |-> 7, iplong_from5 |-> 8, iplong_from6 |-> 9, iplong_from7 |-> 10, iplong_to0 |-> 11, iplong_to1 |-> 12, iplong_to2 |-> 13, iplong_to3 |-> 14, iplong_to4 |-> 15, iplong_to5 |-> 16, iplong_to6 |-> 17, iplong_to7 |-> 18],
     udger_datacenter_list |->
        [id |-> 0, name |-> 1, name_code |-> 2, homepage |-> 3]
    ]

TableNames == DOMAIN Columns

\* the {columns, data} tables built from the rows of each table
MakeData(rows) == [t \in TableNames |-> [columns |-> Columns[t], data |-> rows[t]]]

NoRow == <<>>

\* table.data[idx]
RowAt(d, table, idx) ==
    IF idx \in 0..(Len(d[table].data) - 1) THEN d[table].data[idx + 1] ELSE NoRow

\* The callback fn of findBy and filterBy is given as its verdicts on the rows
\* of the table, by position.

\* a lookup that returns the last row fn accepts
findByLast(d, table, fn) ==
    LET rows == d[table].data
        hits == {i \in 1..Len(rows) : fn[i]}
    IN  IF hits = {} THEN NoRow ELSE rows[CHOOSE i \in hits : \A j \in hits : i >= j]

\* findBy(table, fn): the first row fn accepts
findBy(d, table, fn) ==
    LET rows == d[table].data
        hits == {i \in 1..Len(rows) : fn[i]}
    IN  IF hits = {} THEN NoRow ELSE rows[CHOOSE i \in hits : \A j \in hits : i <= j]

\* filterBy(table, fn): the rows fn accepts, in table order
filterBy(d, table, fn) ==
    LET rows == d[table].data
        F[n \in 0..Len(rows)] ==
            IF n = 0 THEN <<>>
            ELSE IF fn[n] THEN Append(F[n - 1], rows[n]) ELSE F[n - 1]
    IN  F[Len(rows)]

\* map({table, row, keys, rename}); rename is a set of <<from, to>> pairs
map(d, table, row, keys, rename) ==
    IF row = NoRow THEN EmptyObj
    ELSE LET columns == d[table].columns
             from    == {p[1] : p \in rename}
             to      == {p[2] : p \in rename}
             base    == [k \in keys |-> row[columns[k] + 1]]
         IN  Eager([k \in (keys \ from) \cup to |->
                      IF k \in to THEN base[(CHOOSE p \in rename : p[2] = k)[1]]
                      ELSE base[k]])

-----------------------------------------------------------------------------
(* Default templates (defaultResult.json): every flat field, set to ''.    *)

UaFields ==
    {"ua_string", "ua_class", "ua_class_code", "ua", "ua_version", "ua_version_major",
     "ua_uptodate_current_version", "ua_family", "ua_family_code", "ua_family_homepage",
     "ua_family_vendor", "ua_family_vendor_code", "ua_family_vendor_homepage",
     "ua_family_icon", "ua_family_icon_big", "ua_family_info_url", "ua_engine",
     "os", "os_code", "os_homepage", "os_icon", "os_icon_big", "os_info_url",
     "os_family", "os_family_code", "os_family_vendor", "os_family_vendor_code",
     "os_family_vendor_homepage",
     "device_class", "device_class_code", "device_class_icon", "device_class_icon_big",
     "device_class_info_url", "device_marketname", "device_brand", "device_brand_code",
     "device_brand_homepage", "device_brand_icon", "device_brand_icon_big",
     "device_brand_info_url",
     "crawler_last_seen", "crawler_category", "crawler_category_code",
     "crawler_respect_robotstxt"}

IpFields ==
    {"ip", "ip_ver", "ip_classification", "ip_classification_code", "ip_last_seen",
     "ip_hostname", "ip_country", "ip_country_code", "ip_city",
     "crawler_name", "crawler_ver", "crawler_ver_major", "crawler_family",
     "crawler_family_code", "crawler_family_homepage", "crawler_family_vendor",
     "crawler_family_vendor_code", "crawler_family_vendor_homepage",
     "crawler_family_icon", "crawler_family_info_url", "crawler_last_seen",
     "crawler_category", "crawler_category_code", "crawler_respect_robotstxt",
     "datacenter_name", "datacenter_name_code", "datacenter_homepage"}

defaultRet ==
    [user_agent |-> [f \in UaFields |-> EmptyStr],
     ip_address |-> [f \in IpFields |-> EmptyStr]]

-----------------------------------------------------------------------------
(* parseUa.  The working state of one run: the flat record rua, the nested *)
(* object json, the ids found so far, the variable r that the loops and    *)
(* joins share, and (for the properties only) the tables read so far.      *)

\* the text of a number, as string concatenation prints it
NumStr(n) == Lit(ToString(n))

\* n || '' for a number
NumOrEmpty(n) == IF n = NullIdx \/ n = 0 THEN EmptyStr ELSE NumStr(n)

RUndef == [kind |-> "undefined"]

RRow(row) == [kind |-> "row", row |-> row]

RObj(obj) == [kind |-> "object", obj |-> obj]

\* the last row of a pattern table whose regstring matches the string u (0: none)
LastMatch(d, table, u) ==
    LET rows == d[table].data
        q    == d[table].columns.regstring
        hits == {i \in 1..Len(rows) : JsMatch(u, phpRegexpToJs(rows[i][q + 1])).found}
    IN  IF hits = {} THEN 0 ELSE CHOOSE i \in hits : \A j \in hits : i >= j

\* the first row of a pattern table whose regstring matches the string u (0: none)
FirstMatch(d, table, u) ==
    LET rows == d[table].data
        q    == d[table].columns.regstring
        hits == {i \in 1..Len(rows) : JsMatch(u, phpRegexpToJs(rows[i][q + 1])).found}
    IN  IF hits = {} THEN 0 ELSE CHOOSE i \in hits : \A j \in hits : i <= j

\* the value of r after a for (r of table.data) loop that ran to its end
AfterLoop(d, table, r) ==
    IF d[table].data = <<>> THEN r ELSE RRow(d[table].data[Len(d[table].data)])

\* the start of a run that leaves the class of the nested result unset
parseUaStartUnclassified(tmpl, u, opts) ==
    [rua  |-> Spread(tmpl, [ua_string     |-> u,
                            ua_class      |-> Lit("Unrecognized"),
                            ua_class_code |-> Lit("unrecognized")]),
     json |-> DotSet(EmptyObj, <<"ua", "string">>, u),
     client_id       |-> 0,
     client_class_id |-> 0 - 1,
     os_id           |-> 0,
     deviceclass_id  |-> 0,
     r               |-> RUndef,
     used            |-> {}]

\* lines 239-268: the copy of the template and the unrecognized defaults
parseUaStart(tmpl, u, opts) ==
    [rua  |-> Spread(tmpl, [ua_string     |-> u,
                            ua_class      |-> Lit("Unrecognized"),
                            ua_class_code |-> Lit("unrecognized")]),
     json |-> IF opts.full
              THEN DotSet(DotSet(DotSet(EmptyObj, <<"ua", "string">>, u),
                                 <<"ua", "class", "name">>, Lit("Unrecognized")),
                          <<"ua", "class", "code">>, Lit("unrecognized"))
              ELSE DotSet(DotSet(EmptyObj, <<"ua", "string">>, u),
                          <<"ua", "class">>, Lit("unrecognized")),
     client_id       |-> 0,
     client_class_id |-> 0 - 1,
     os_id           |-> 0,
     deviceclass_id  |-> 0,
     r               |-> RUndef,
     used            |-> {}]

\* lines 274-353: the crawler found by its exact ua_string
crawlerFound(d, opts, s, q) ==
    Only({ Only({
      LET j1  == DotSetIf(s.json, <<"ua", "name">>, rua.ua)
          j2  == IF opts.full
                 THEN DotSetAllIf(
                        DotSet(DotSet(j1, <<"ua", "class", "name">>, Lit("Crawler")),
                               <<"ua", "class", "code">>, Lit("crawler")),
                        << <<<<"ua", "version", "current">>, rua.ua_version>>,
                           <<<<"ua", "version", "major">>, rua.ua_version_major>>,
                           <<<<"ua", "family", "name">>, rua.ua_family>>,
                           <<<<"ua", "family", "code">>, rua.ua_family_code>>,
                           <<<<"ua", "family", "homepage">>, rua.ua_family_homepage>>,
                           <<<<"ua", "family", "vendor", "name">>, rua.ua_family_vendor>>,
                           <<<<"ua", "family", "vendor", "code">>, rua.ua_family_vendor_code>>,
                           <<<<"ua", "family", "vendor", "homepage">>, rua.ua_family_homepage>>,
                           <<<<"ua", "family", "icon">>, rua.ua_family_icon>>,
                           <<<<"ua", "family", "infoUrl">>,
                             IF Truthy(rua.ua_family) /\ NumOrEmpty(PropI(r, "botid")) # EmptyStr
                             THEN rua.ua_family_info_url ELSE EmptyStr>> >>)
                 ELSE DotSetAllIf(
                        DotSet(j1, <<"ua", "class">>, Lit("crawler")),
                        << <<<<"ua", "family", "code">>, rua.ua_family_code>>,
                           <<<<"ua", "family", "homepage">>, rua.ua_family_homepage>>,
                           <<<<"ua", "family", "vendor">>, rua.ua_family_vendor_code>> >>)
          j3  == DotSetIf(j2, <<"crawler", "lastSeen">>, rua.crawler_last_seen)
          j4  == IF opts.full
                 THEN DotSetAllIf(j3,
                        << <<<<"crawler", "category", "name">>, rua.crawler_category>>,
                           <<<<"crawler", "category", "code">>, rua.crawler_category_code>>,
                           <<<<"crawler", "respectRobotsTxt">>, rua.crawler_respect_robotstxt>> >>)
                 ELSE DotSetIf(j3, <<"crawler", "category">>, rua.crawler_category_code)
      IN  [s EXCEPT !.rua = rua, !.json = j4, !.client_class_id = 99, !.r = RObj(r)]
      \* rua: the flat record after the assignments of lines 301-318
      : rua \in {Spread(s.rua,
                 [ua_class                  |-> Lit("Crawler"),
                  ua_class_code             |-> Lit("crawler"),
                  ua                        |-> OrEmpty(PropS(r, "name")),
                  ua_version                |-> OrEmpty(PropS(r, "ver")),
                  ua_version_major          |-> OrEmpty(PropS(r, "ver_major")),
                  ua_family                 |-> OrEmpty(PropS(r, "family")),
                  ua_family_code            |-> OrEmpty(PropS(r, "family_code")),
                  ua_family_homepage        |-> OrEmpty(PropS(r, "family_homepage")),
                  ua_family_vendor          |-> OrEmpty(PropS(r, "vendor")),
                  ua_family_vendor_code     |-> OrEmpty(PropS(r, "vendor_code")),
                  ua_family_vendor_homepage |-> OrEmpty(PropS(r, "vendor_homepage")),
                  ua_family_icon            |-> OrEmpty(PropS(r, "family_icon")),
                  ua_family_info_url        |->
                      Lit("https://udger.com/resources/ua-list/bot-detail?bot=")
                      \o OrEmpty(PropS(r, "family")) \o Lit("#id")
                      \o NumOrEmpty(PropI(r, "botid")),
                  crawler_last_seen         |-> OrEmpty(PropS(r, "last_seen")),
                  crawler_category          |-> OrEmpty(PropS(r, "crawler_classification")),
                  crawler_category_code     |-> OrEmpty(PropS(r, "crawler_classification_code")),
                  crawler_respect_robotstxt |-> OrEmpty(PropS(r, "respect_robotstxt"))])} })
      \* r: the crawler row joined with its class (lines 278-294)
      : r \in {LET r1 == map(d, "udger_crawler_list", q,
                          {"id", "name", "ver", "ver_major", "last_seen", "respect_robotstxt",
                           "family", "family_code", "family_homepage", "family_icon",
                           "vendor", "vendor_code", "vendor_homepage", "class_id"},
                          {<<"id", "botid">>})
               IN  Spread(r1, map(d, "udger_crawler_class",
                                  RowAt(d, "udger_crawler_class", PropI(r1, "class_id")),
                                  {"crawler_classification", "crawler_classification_code"},
                                  {}))} })

\* lines 362-458: the first client pattern that matched (row) and its match e
clientFound(d, opts, s, row, e) ==
    Only({ Only({
      LET j1  == IF opts.full
                 THEN DotSet(DotSet(s.json, <<"ua", "class", "name">>, rua.ua_class),
                             <<"ua", "class", "code">>, rua.ua_class_code)
                 ELSE DotSet(s.json, <<"ua", "class">>, rua.ua_class_code)
          j2  == IF Truthy(rua.ua)
                 THEN DotSet(j1, <<"ua", "name">>, rua.ua)
                 ELSE DotDelete(j1, <<"ua", "name">>)
          j3  == IF ~opts.full THEN j2
                 ELSE IF Truthy(rua.ua_version)
                      THEN DotSet(j2, <<"ua", "version", "current">>, rua.ua_version)
                      ELSE DotDelete(j2, <<"ua", "version", "current">>)
          j4  == IF ~opts.full THEN j3
                 ELSE IF Truthy(rua.ua_version_major)
                      THEN DotSet(j3, <<"ua", "version", "current">>, rua.ua_version_major)
                      ELSE DotDelete(j3, <<"ua", "version", "current">>)
          j5  == IF opts.full
                 THEN LET j5a == DotSetAllIf(j4,
                        << <<<<"ua", "uptodateCurrentVersion">>, rua.ua_uptodate_current_version>>,
                           <<<<"ua", "family", "name">>, rua.ua_family>>,
                           <<<<"ua", "family", "code">>, rua.ua_family_code>>,
                           <<<<"ua", "family", "homepage">>, rua.ua_family_homepage>>,
                           <<<<"ua", "family", "vendor", "name">>, rua.ua_family_vendor>>,
                           <<<<"ua", "family", "vendor", "code">>, rua.ua_family_vendor_code>>,
                           <<<<"ua", "family", "vendor", "homepage">>, rua.ua_family_vendor_homepage>>,
                           <<<<"ua", "family", "icon">>, rua.ua_family_icon>>,
                           <<<<"ua", "family", "iconBig">>, rua.ua_family_icon_big>> >>)
                      IN  IF Truthy(PropS(r, "name"))
                          THEN DotSet(j5a, <<"ua", "family", "infoUrl">>, rua.ua_family_info_url)
                          ELSE j5a
                 ELSE DotSetIf(j4, <<"ua", "family">>, rua.ua_family_code)
          j6  == DotSetIf(j5, <<"ua", "engine">>, rua.ua_engine)
      IN  [s EXCEPT !.rua = rua, !.json = j6, !.r = RObj(r),
                    !.client_id = PropI(r, "client_id"),
                    !.client_class_id = PropI(r, "class_id")]
      \* rua: the flat record after the assignments of lines 389-438
      : rua \in {LET ver == Truthy(e.g1)
                 IN Spread(s.rua,
                 [ua_class                    |-> PropS(r, "client_classification"),
                  ua_class_code               |-> PropS(r, "client_classification_code"),
                  ua                          |-> IF ver
                                                  THEN JsStr(PropS(r, "name")) \o <<" ">> \o e.g1
                                                  ELSE PropS(r, "name"),
                  ua_version                  |-> IF ver THEN e.g1 ELSE EmptyStr,
                  ua_version_major            |-> IF ver THEN SplitDot0(e.g1) ELSE EmptyStr,
                  ua_uptodate_current_version |-> OrEmpty(PropS(r, "uptodate_current_version")),
                  ua_family                   |-> OrEmpty(PropS(r, "name")),
                  ua_family_code              |-> OrEmpty(PropS(r, "name_code")),
                  ua_family_homepage          |-> OrEmpty(PropS(r, "homepage")),
                  ua_family_vendor            |-> OrEmpty(PropS(r, "vendor")),
                  ua_family_vendor_code       |-> OrEmpty(PropS(r, "vendor_code")),
                  ua_family_vendor_homepage   |-> OrEmpty(PropS(r, "vendor_homepage")),
                  ua_family_icon              |-> OrEmpty(PropS(r, "icon")),
                  ua_family_icon_big          |-> OrEmpty(PropS(r, "icon_big")),
                  ua_family_info_url          |->
                      Lit("https://udger.com/resources/ua-list/browser-detail?browser=")
                      \o OrEmpty(PropS(r, "name")),
                  ua_engine                   |-> OrEmpty(PropS(r, "engine"))])} })
      \* r: the pattern row joined with its client and client class (lines 362-382)
      : r \in {LET r1 == map(d, "udger_client_regex", row, {"client_id", "regstring"}, {})
                   r2 == Spread(r1, map(d, "udger_client_list",
                              RowAt(d, "udger_client_list", PropI(r1, "client_id")),
                              {"id", "class_id", "name", "name_code", "homepage", "icon",
                               "icon_big", "engine", "vendor", "vendor_code",
                               "vendor_homepage", "uptodate_current_version"},
                              {<<"id", "client_id">>}))
               IN  Spread(r2, map(d, "udger_client_class",
                              RowAt(d, "udger_client_class", PropI(r2, "class_id")),
                              {"id", "client_classification", "client_classification_code"},
                              {<<"id", "class_id">>}))} })

\* lines 356-460: the scan of udger_client_regex, in table order
clientStage(d, u, opts, s) ==
    LET i  == FirstMatch(d, "udger_client_regex", u)
        s1 == [s EXCEPT !.used = @ \cup {"udger_client_regex"}]
    IN  IF i = 0
        THEN [s1 EXCEPT !.r = AfterLoop(d, "udger_client_regex", s.r)]
        ELSE LET row == d["udger_client_regex"].data[i]
                 e   == JsMatch(u, phpRegexpToJs(row[d["udger_client_regex"].columns.regstring + 1]))
             IN  clientFound(d, opts, s1, row, e)

\* the client scan made after the crawler branch as well
crawlerThenClientStage(d, u, opts, s) ==
    LET q  == findBy(d, "udger_crawler_list",
          [rowNo \in DOMAIN d["udger_crawler_list"].data |->
           LET row     == d["udger_crawler_list"].data[rowNo]
               columns == d["udger_crawler_list"].columns
           IN  row[columns.ua_string + 1] = u])
        s1 == [s EXCEPT !.used = @ \cup {"udger_crawler_list"}]
    IN  IF q # NoRow THEN clientStage(d, u, opts, crawlerFound(d, opts, s1, q))
        ELSE clientStage(d, u, opts, s1)

\* lines 274-461: crawler by exact string, otherwise client by pattern
crawlerOrClientStage(d, u, opts, s) ==
    LET q  == findBy(d, "udger_crawler_list",
          [rowNo \in DOMAIN d["udger_crawler_list"].data |->
           LET row     == d["udger_crawler_list"].data[rowNo]
               columns == d["udger_crawler_list"].columns
           IN  row[columns.ua_string + 1] = u])
        s1 == [s EXCEPT !.used = @ \cup {"udger_crawler_list"}]
    IN  IF q # NoRow THEN crawlerFound(d, opts, s1, q) ELSE clientStage(d, u, opts, s1)

\* the OS fields of the flat record, from the joined object r (lines 490-500, 549-559)
osFields(r) ==
    [os                        |-> OrEmpty(PropS(r, "name")),
     os_code                   |-> OrEmpty(PropS(r, "name_code")),
     os_homepage               |-> OrEmpty(PropS(r, "homepage")),
     os_icon                   |-> OrEmpty(PropS(r, "icon")),
     os_icon_big               |-> OrEmpty(PropS(r, "icon_big")),
     os_info_url               |-> Lit("https://udger.com/resources/ua-list/os-detail?os=")
                                   \o OrEmpty(PropS(r, "name")),
     os_family                 |-> OrEmpty(PropS(r, "family")),
     os_family_code            |-> OrEmpty(PropS(r, "family_code")),
     os_family_vendor          |-> OrEmpty(PropS(r, "vendor")),
     os_family_vendor_code     |-> OrEmpty(PropS(r, "vendor_code")),
     os_family_vendor_homepage |-> OrEmpty(PropS(r, "vendor_homepage"))]

\* the full nested OS properties (lines 503-513, 561-571)
osJsonFull(json, rua) ==
    DotSetAllIf(json,
      << <<<<"os", "name">>, rua.os>>,
         <<<<"os", "code">>, rua.os_code>>,
         <<<<"os", "homepage">>, rua.os_homepage>>,
         <<<<"os", "icon">>, rua.os_icon>>,
         <<<<"os", "iconBig">>, rua.os_icon_big>>,
         <<<<"os", "infoUrl">>, rua.os_info_url>>,
         <<<<"os", "family", "name">>, rua.os_family>>,
         <<<<"os", "family", "code">>, rua.os_family_code>>,
         <<<<"os", "family", "vendor", "name">>, rua.os_family_vendor>>,
         <<<<"os", "family", "vendor", "code">>, rua.os_family_vendor_code>>,
         <<<<"os", "family", "vendor", "homepage">>, rua.os_family_vendor_homepage>> >>)

OsListKeys ==
    {"id", "family", "family_code", "name", "name_code", "homepage", "icon", "icon_big",
     "vendor", "vendor_code", "vendor_homepage"}

\* lines 473-518: the first OS pattern that matched
osFound(d, opts, s, row) ==
    LET r1  == map(d, "udger_os_regex", row, {"os_id", "regstring"}, {})
        r   == Spread(r1, map(d, "udger_os_list",
                              RowAt(d, "udger_os_list", PropI(r1, "os_id")),
                              OsListKeys, {<<"id", "os_id">>}))
        rua == Spread(s.rua, osFields(r))
        j   == IF opts.full
               THEN osJsonFull(s.json, rua)
               ELSE DotSetAllIf(s.json,
                      << <<<<"os", "code">>, rua.os_code>>,
                         <<<<"os", "family">>, rua.os_family_code>> >>)
    IN  [s EXCEPT !.rua = rua, !.json = j, !.r = RObj(r), !.os_id = PropI(r, "os_id")]

\* lines 467-520: the scan of udger_os_regex, in table order
osStage(d, u, opts, s) ==
    LET i  == FirstMatch(d, "udger_os_regex", u)
        s1 == [s EXCEPT !.used = @ \cup {"udger_os_regex"}]
    IN  IF i = 0
        THEN [s1 EXCEPT !.r = AfterLoop(d, "udger_os_regex", s.r)]
        ELSE osFound(d, opts, s1, d["udger_os_regex"].data[i])

\* map({table: 'udger_client_os_relation', row: r, keys: ['os_id']}) at line 532,
\* where r is what the earlier loops left: a raw row (read at the position of
\* the relation table's os_id column), a joined object (no such property) or
\* undefined
relationMapOfR(d, r) ==
    LET pos == d["udger_client_os_relation"].columns.os_id
    IN  IF r.kind = "undefined" THEN EmptyObj
        ELSE IF r.kind = "row" /\ pos + 1 <= Len(r.row) THEN [os_id |-> r.row[pos + 1]]
        ELSE [os_id |-> NullIdx]

\* lines 528-573: the lookup in udger_client_os_relation
osRelationLookup(d, opts, s) ==
      LET q  == findBy(d, "udger_client_os_relation",
            \* the destructured column client_id hides the local client_id
            [rowNo \in DOMAIN d["udger_client_os_relation"].data |->
             LET row     == d["udger_client_os_relation"].data[rowNo]
                 columns == d["udger_client_os_relation"].columns
             IN  row[columns.client_id + 1] = columns.client_id])
          s1 == [s EXCEPT !.used = @ \cup {"udger_client_os_relation"}]
      IN  IF q = NoRow THEN s1
          ELSE LET r1  == relationMapOfR(d, s.r)
                   r   == Spread(r1, map(d, "udger_os_list",
                                         RowAt(d, "udger_os_list", PropI(r1, "os_id")),
                                         OsListKeys, {<<"id", "os_id">>}))
                   rua == Spread(s.rua, osFields(r))
               IN  [s1 EXCEPT !.rua = rua, !.json = osJsonFull(s.json, rua),
                              !.r = RObj(r), !.os_id = PropI(r, "os_id")]

\* the lookup made for every string, whatever the earlier stages found
osRelationStageUnguarded(d, opts, s) == osRelationLookup(d, opts, s)

\* lines 526-574: client/os relation
osRelationStage(d, opts, s) ==
    IF s.os_id = 0 /\ s.client_id # 0 THEN osRelationLookup(d, opts, s) ELSE s

\* the nested device class properties (lines 609-617, 651-659)
deviceJson(json, rua, opts) ==
    IF opts.full
    THEN DotSetAllIf(json,
           << <<<<"device", "class", "name">>, rua.device_class>>,
              <<<<"device", "class", "code">>, rua.device_class_code>>,
              <<<<"device", "class", "icon">>, rua.device_class_icon>>,
              <<<<"device", "class", "iconBig">>, rua.device_class_icon_big>>,
              <<<<"device", "class", "infoUrl">>, rua.device_class_info_url>> >>)
    ELSE DotSetIf(json, <<"device", "class">>, rua.device_class_code)

DeviceClassKeys == {"id", "name", "name_code", "icon", "icon_big"}

\* lines 586-619: the first device class pattern that matched
deviceFound(d, opts, s, row) ==
    LET r1  == map(d, "udger_deviceclass_regex", row, {"deviceclass_id", "regstring"}, {})
        r   == Spread(r1, map(d, "udger_deviceclass_list",
                              RowAt(d, "udger_deviceclass_list", PropI(r1, "deviceclass_id")),
                              DeviceClassKeys, {<<"id", "deviceclass_id">>}))
        rua == Spread(s.rua,
                 [device_class          |-> OrEmpty(PropS(r, "name")),
                  device_class_code     |-> OrEmpty(PropS(r, "name_code")),
                  device_class_icon     |-> OrEmpty(PropS(r, "icon")),
                  device_class_icon_big |-> OrEmpty(PropS(r, "icon_big")),
                  device_class_info_url |->
                      Lit("https://udger.com/resources/ua-list/device-detail?device=")
                      \o JsStr(PropS(r, "name"))])
    IN  [s EXCEPT !.rua = rua, !.json = deviceJson(s.json, rua, opts), !.r = RObj(r),
                  !.deviceclass_id = PropI(r, "deviceclass_id")]

\* lines 580-621: the scan of udger_deviceclass_regex, in table order
deviceStage(d, u, opts, s) ==
    LET i  == FirstMatch(d, "udger_deviceclass_regex", u)
        s1 == [s EXCEPT !.used = @ \cup {"udger_deviceclass_regex"}]
    IN  IF i = 0
        THEN [s1 EXCEPT !.r = AfterLoop(d, "udger_deviceclass_regex", s.r)]
        ELSE deviceFound(d, opts, s1, d["udger_deviceclass_regex"].data[i])

\* lines 623-661: the device class of the client class
deviceByClientClassStage(d, opts, s) ==
    IF ~(s.deviceclass_id = 0 /\ s.client_class_id # 0 - 1) THEN s
    ELSE
      LET q  == findBy(d, "udger_client_class",
            [rowNo \in DOMAIN d["udger_client_class"].data |->
             LET row     == d["udger_client_class"].data[rowNo]
                 columns == d["udger_client_class"].columns
             IN  row[columns.id + 1] = s.client_class_id])
          s1 == [s EXCEPT !.used = @ \cup {"udger_client_class"}]
      IN  IF q = NoRow THEN [s1 EXCEPT !.r = RUndef]
          ELSE LET r1  == map(d, "udger_client_class", q, {"deviceclass_id"}, {})
                   r   == Spread(r1, map(d, "udger_deviceclass_list",
                                         RowAt(d, "udger_deviceclass_list",
                                               PropI(r1, "deviceclass_id")),
                                         DeviceClassKeys, {<<"id", "deviceclass_id">>}))
                   rua == Spread(s.rua,
                            [device_class          |-> OrEmpty(PropS(r, "name")),
                             device_class_code     |-> OrEmpty(PropS(r, "name_code")),
                             device_class_icon     |-> OrEmpty(PropS(r, "icon")),
                             device_class_icon_big |-> OrEmpty(PropS(r, "icon_big")),
                             device_class_info_url |->
                                 Lit("https://udger.com/resources/ua-list/device-detail?device=")
                                 \o OrEmpty(PropS(r, "name"))])
               IN  [s1 EXCEPT !.rua = rua, !.json = deviceJson(s.json, rua, opts),
                              !.r = RObj(r),
                              !.deviceclass_id = PropI(r, "deviceclass_id")]

\* the key of the last candidate that matches, whatever the earlier ones do
deviceNameKeyLast(d, u, q) ==
    LET regCol == d["udger_devicename_regex"].columns.regstring
        idCol  == d["udger_devicename_regex"].columns.id
        e(i)   == JsMatch(u, phpRegexpToJs(q[i][regCol + 1]))
        hits   == {i \in 1..Len(q) : e(i).found /\ Truthy(e(i).g1)}
    IN  IF hits = {} THEN [match |-> UndefS, rId |-> NullIdx]
        ELSE LET i == CHOOSE i \in hits : \A j \in hits : i >= j
             IN  [match |-> Trim(e(i).g1), rId |-> q[i][idCol + 1]]

\* lines 678-685: the first candidate row whose pattern matches with a non-empty
\* group 1 fixes match and rId (both undefined when there is none)
deviceNameKey(d, u, q) ==
    LET regCol == d["udger_devicename_regex"].columns.regstring
        idCol  == d["udger_devicename_regex"].columns.id
        e(i)   == JsMatch(u, phpRegexpToJs(q[i][regCol + 1]))
        hits   == {i \in 1..Len(q) : e(i).found /\ Truthy(e(i).g1)}
    IN  IF hits = {} THEN [match |-> UndefS, rId |-> NullIdx]
        ELSE LET i == CHOOSE i \in hits : \A j \in hits : i <= j
             IN  [match |-> Trim(e(i).g1), rId |-> q[i][idCol + 1]]

\* lines 668-725: the body of if (rua['os_family_code'])
deviceNameLookup(d, u, opts, s) ==
      LET s1 == [s EXCEPT !.used = @ \cup {"udger_devicename_regex", "udger_devicename_list"}]
      IN  Only({
            IF qC = NoRow THEN s1
            ELSE Only({ Only({
                   [s1 EXCEPT
                      !.rua  = rua,
                      !.json = DotSetAllIf(s.json,
                            << <<<<"device", "marketName">>, rua.device_marketname>>,
                               <<<<"device", "brand", "name">>, rua.device_brand>>,
                               <<<<"device", "brand", "code">>, rua.device_brand_code>>,
                               <<<<"device", "brand", "homepage">>, rua.device_brand_homepage>>,
                               <<<<"device", "brand", "icon">>, rua.device_brand_icon>>,
                               <<<<"device", "brand", "iconBig">>, rua.device_brand_icon_big>>,
                               <<<<"device", "brand", "infoUrl">>, rua.device_brand_info_url>> >>)]
                   \* rua: the flat record after the assignments of lines 709-715
                   : rua \in {Spread(s.rua,
                            [device_marketname     |-> OrEmpty(PropS(rC, "marketname")),
                             device_brand          |-> OrEmpty(PropS(rC, "brand")),
                             device_brand_code     |-> OrEmpty(PropS(rC, "brand_code")),
                             device_brand_homepage |-> OrEmpty(PropS(rC, "brand_url")),
                             device_brand_icon     |-> OrEmpty(PropS(rC, "icon")),
                             device_brand_icon_big |-> OrEmpty(PropS(rC, "icon_big")),
                             device_brand_info_url |->
                                 Lit("https://udger.com/resources/ua-list/devices-brand-detail?brand=")
                                 \o OrEmpty(PropS(rC, "brand_code"))])} })
                   \* rC: the list row joined with its brand (lines 693-705)
                   : rC \in {LET rC1 == map(d, "udger_devicename_list", qC,
                                           {"marketname", "brand_id"}, {})
                             IN  Spread(rC1, map(d, "udger_devicename_brand",
                                          RowAt(d, "udger_devicename_brand",
                                                PropI(rC1, "brand_id")),
                                          {"id", "brand_code", "brand", "brand_url",
                                           "icon", "icon_big"},
                                          {<<"id", "brand_id">>}))} })
            \* qC: the list row of the pattern that matched and of the text it
            \* captured (lines 687-689)
            : qC \in {Only({
                findBy(d, "udger_devicename_list",
                  [rowNo \in DOMAIN d["udger_devicename_list"].data |->
                   LET row     == d["udger_devicename_list"].data[rowNo]
                       columns == d["udger_devicename_list"].columns
                   IN
                       /\ row[columns.regex_id + 1] = key.rId
                       /\ row[columns.code + 1] = key.match])
                \* key: the candidate patterns of the OS (lines 670-674) and the
                \* first of them that matches
                : key \in {deviceNameKey(d, u,
                    filterBy(d, "udger_devicename_regex",
                      [rowNo \in DOMAIN d["udger_devicename_regex"].data |->
                       LET row     == d["udger_devicename_regex"].data[rowNo]
                           columns == d["udger_devicename_regex"].columns
                       IN
                           /\ row[columns.os_family_code + 1] = s.rua.os_family_code
                           /\ \/ row[columns.os_code + 1] = Lit("-all-")
                              \/ row[columns.os_code + 1] = s.rua.os_code]))} })} })

\* the device marketname lookup without the test of the OS family code
deviceNameStageUnguarded(d, u, opts, s) == deviceNameLookup(d, u, opts, s)

\* lines 667-726: device marketname
deviceNameStage(d, u, opts, s) ==
    IF ~Truthy(PropS(s.rua, "os_family_code")) THEN s
    ELSE deviceNameLookup(d, u, opts, s)

\* parseUa(ua, opts) on the template tmpl (this.retUa) and the tables d (this.data)
parseUa(d, tmpl, u, opts) ==
    IF ~Truthy(u) THEN [udger |-> tmpl, json |-> EmptyObj, used |-> {}]
    ELSE \* the working state after each stage of lines 248-726, the last stage first
      Only({ Only({ Only({ Only({ Only({ Only({ Only({
        [udger |-> s6.rua, json |-> s6.json, used |-> s6.used]
        : s6 \in {deviceNameStage(d, u, opts, s5)} })
        : s5 \in {deviceByClientClassStage(d, opts, s4)} })
        : s4 \in {deviceStage(d, u, opts, s3)} })
        : s3 \in {osRelationStage(d, opts, s2)} })
        : s2 \in {osStage(d, u, opts, s1)} })
        : s1 \in {crawlerOrClientStage(d, u, opts, s0)} })
        : s0 \in {parseUaStart(tmpl, u, opts)} })

-----------------------------------------------------------------------------
(* IP address text (utils.getIpVersion, ip2long, inetPton, inetNtop and    *)
(* Address6.canonicalForm of the ip-address package)                       *)

HexDigits == <<"0","1","2","3","4","5","6","7","8","9","a","b","c","d","e","f">>

IsHexChar(c) == \E i \in 1..16 : HexDigits[i] = LowerChar(c)

HexVal(c) == (CHOOSE i \in 1..16 : HexDigits[i] = LowerChar(c)) - 1

RECURSIVE HexToInt(_)
\* parseInt(h, 16)
HexToInt(h) ==
    IF h = <<>> THEN 0 ELSE HexToInt(SubSeq(h, 1, Len(h) - 1)) * 16 + HexVal(h[Len(h)])

RECURSIVE IntToHex(_)
IntToHex(n) ==
    IF n < 16 THEN <<HexDigits[n + 1]>> ELSE IntToHex(n \div 16) \o <<HexDigits[(n % 16) + 1]>>

RECURSIVE DecToInt(_)
DecToInt(t) ==
    IF t = <<>> THEN 0 ELSE DecToInt(SubSeq(t, 1, Len(t) - 1)) * 10 + HexVal(t[Len(t)])

RECURSIVE SplitBy(_, _)
\* s.split(c)
SplitBy(t, c) ==
    LET at == {i \in 1..Len(t) : t[i] = c}
    IN  IF at = {} THEN <<t>>
        ELSE LET i == CHOOSE i \in at : \A j \in at : i <= j
             IN  <<SubSeq(t, 1, i - 1)>> \o SplitBy(SubSeq(t, i + 1, Len(t)), c)

RECURSIVE JoinBy(_, _)
\* parts.join(c)
JoinBy(parts, c) ==
    IF parts = <<>> THEN <<>>
    ELSE IF Len(parts) = 1 THEN parts[1]
    ELSE parts[1] \o <<c>> \o JoinBy(Tail(parts), c)

IsIPv4(t) ==
    LET parts == SplitBy(t, ".")
    IN  /\ Len(parts) = 4
        /\ \A i \in 1..4 :
              /\ Len(parts[i]) \in 1..3
              /\ \A k \in 1..Len(parts[i]) : parts[i][k] \in DigitChars
              /\ DecToInt(parts[i]) <= 255

\* utils.ip2long: the 32-bit value of a dotted quad
ip2long(t) ==
    LET parts == SplitBy(t, ".")
    IN  ((DecToInt(parts[1]) * 256 + DecToInt(parts[2])) * 256 + DecToInt(parts[3])) * 256
        + DecToInt(parts[4])

IsGroup(g) == Len(g) \in 1..4 /\ \A k \in 1..Len(g) : IsHexChar(g[k])

\* the positions of "::" in t
Gaps(t) == {k \in 1..(Len(t) - 1) : t[k] = ":" /\ t[k + 1] = ":"}

GroupsOf(t) == IF t = <<>> THEN <<>> ELSE SplitBy(t, ":")

IsIPv6(t) ==
    IF Gaps(t) = {}
    THEN Len(SplitBy(t, ":")) = 8 /\ \A i \in 1..8 : IsGroup(SplitBy(t, ":")[i])
    ELSE /\ Cardinality(Gaps(t)) = 1
         /\ LET k     == CHOOSE k \in Gaps(t) : TRUE
                left  == GroupsOf(SubSeq(t, 1, k - 1))
                right == GroupsOf(SubSeq(t, k + 2, Len(t)))
            IN  /\ Len(left) + Len(right) <= 7
                /\ \A i \in 1..Len(left) : IsGroup(left[i])
                /\ \A i \in 1..Len(right) : IsGroup(right[i])

IpVerUnknown == <<"<unknown>">>

\* a number held in a result, as opposed to the text of its digits
JsNum(n) == <<"<number>", ToString(n)>>

\* utils.getIpVersion: 4, 6, or unknown for any other text
getIpVersion(t) == IF IsIPv4(t) THEN 4 ELSE IF IsIPv6(t) THEN 6 ELSE 0

\* utils.inetPton for version 6: the eight 16-bit groups of the address
inetPton(t) ==
    IF Gaps(t) = {}
    THEN [i \in 1..8 |-> HexToInt(SplitBy(t, ":")[i])]
    ELSE LET k     == CHOOSE k \in Gaps(t) : TRUE
             left  == GroupsOf(SubSeq(t, 1, k - 1))
             right == GroupsOf(SubSeq(t, k + 2, Len(t)))
         IN  [i \in 1..8 |->
                IF i <= Len(left) THEN HexToInt(left[i])
                ELSE IF i > 8 - Len(right) THEN HexToInt(right[i - (8 - Len(right))])
                ELSE 0]

\* the zero runs of length >= 2 of the groups g, as <<first, last>>
ZeroRuns(g) ==
    {p \in (1..8) \X (1..8) :
        /\ p[1] < p[2]
        /\ \A i \in p[1]..p[2] : g[i] = 0
        /\ (p[1] = 1 \/ g[p[1] - 1] # 0)
        /\ (p[2] = 8 \/ g[p[2] + 1] # 0)}

\* utils.inetNtop for version 6: lower-case groups without leading zeros, the
\* leftmost longest run of zero groups written as "::"
inetNtop(g) ==
    LET hex(a, b) == JoinBy([i \in 1..(b - a + 1) |-> IntToHex(g[a + i - 1])], ":")
    IN  IF ZeroRuns(g) = {} THEN hex(1, 8)
        ELSE LET run == CHOOSE p \in ZeroRuns(g) :
                           \A o \in ZeroRuns(g) :
                              \/ p[2] - p[1] > o[2] - o[1]
                              \/ (p[2] - p[1] = o[2] - o[1] /\ p[1] <= o[1])
             IN  hex(1, run[1] - 1) \o <<":", ":">> \o hex(run[2] + 1, 8)

Pad4(h) == [i \in 1..(4 - Len(h)) |-> "0"] \o h

\* new Address6(ip).canonicalForm(): eight groups of four hex digits
canonicalForm(t) == JoinBy([i \in 1..8 |-> Pad4(IntToHex(inetPton(t)[i]))], ":")

-----------------------------------------------------------------------------
(* parseIp                                                                 *)

\* the version as it is stored in a result
IpVerValue(v) == IF v = 0 THEN IpVerUnknown ELSE JsNum(v)

CrawlerListKeys ==
    {"id", "name", "ver", "ver_major", "class_id", "last_seen", "respect_robotstxt",
     "family", "family_code", "family_homepage", "family_icon",
     "vendor", "vendor_code", "vendor_homepage"}

\* lines 779-875: the udger_ip_list row q of the address
ipFound(d, opts, rip, json, q) ==
    Only({ Only({
      LET isCrawler == PropS(r, "ip_classification_code") = Lit("crawler")
          j1 == IF opts.full
                THEN DotSetAllIf(json,
                       << <<<<"classification", "name">>, rip2.ip_classification>>,
                          <<<<"classification", "code">>, rip2.ip_classification_code>> >>)
                ELSE DotSetIf(json, <<"classification">>, rip2.ip_classification_code)
          j2 == DotSetAllIf(j1,
                  << <<<<"lastSeen">>, rip2.ip_last_seen>>,
                     <<<<"hostname">>, rip2.ip_hostname>>,
                     <<<<"geo", "country", "name">>, rip2.ip_country>>,
                     <<<<"geo", "country", "code">>, rip2.ip_country_code>>,
                     <<<<"geo", "city">>, rip2.ip_city>>,
                     <<<<"crawler", "name">>, rip2.crawler_name>> >>)
          j3 == IF opts.full
                THEN DotSetAllIf(j2,
                       << <<<<"crawler", "version", "current">>, rip2.crawler_ver>>,
                          <<<<"crawler", "version", "major">>, rip2.crawler_ver_major>>,
                          <<<<"crawler", "family", "name">>, rip2.crawler_family>>,
                          <<<<"crawler", "family", "code">>, rip2.crawler_family_code>>,
                          <<<<"crawler", "family", "homepage">>, rip2.crawler_family_homepage>>,
                          <<<<"crawler", "family", "vendor", "name">>, rip2.crawler_family_vendor>>,
                          <<<<"crawler", "family", "vendor", "code">>,
                            rip2.crawler_family_vendor_code>>,
                          <<<<"crawler", "family", "vendor", "homepage">>,
                            rip2.crawler_family_vendor_homepage>>,
                          <<<<"crawler", "family", "icon">>, rip2.crawler_family_icon>>,
                          <<<<"crawler", "family", "infoUrl">>,
                            IF isCrawler THEN PropS(rip2, "crawler_family_info_url")
                            ELSE EmptyStr>>,
                          <<<<"crawler", "lastSeen">>, rip2.crawler_last_seen>>,
                          <<<<"crawler", "category", "name">>, rip2.crawler_category>>,
                          <<<<"crawler", "category", "code">>, rip2.crawler_category_code>> >>)
                ELSE DotSetAllIf(j2,
                       << <<<<"crawler", "family">>, rip2.crawler_family_code>>,
                          <<<<"crawler", "category">>, rip2.crawler_category_code>>,
                          <<<<"crawler", "lastSeen">>, rip2.crawler_last_seen>> >>)
          j4 == IF opts.full /\ Truthy(rip2.crawler_respect_robotstxt)
                THEN DotSet(j3, <<"crawler", "respectRobotsTxt">>, rip2.crawler_category_code)
                ELSE j3
      IN  [udger |-> rip2, json |-> j4]
      \* rip2: the flat record after the assignments of lines 813-837
      : rip2 \in {LET rip1 == Spread(rip,
                  [ip_classification              |-> OrEmpty(PropS(r, "ip_classification")),
                   ip_classification_code         |-> OrEmpty(PropS(r, "ip_classification_code")),
                   ip_last_seen                   |-> OrEmpty(PropS(r, "ip_last_seen")),
                   ip_hostname                    |-> OrEmpty(PropS(r, "ip_hostname")),
                   ip_country                     |-> OrEmpty(PropS(r, "ip_country")),
                   ip_country_code                |-> OrEmpty(PropS(r, "ip_country_code")),
                   ip_city                        |-> OrEmpty(PropS(r, "ip_city")),
                   crawler_name                   |-> OrEmpty(PropS(r, "name")),
                   crawler_ver                    |-> OrEmpty(PropS(r, "ver")),
                   crawler_ver_major              |-> OrEmpty(PropS(r, "ver_major")),
                   crawler_family                 |-> OrEmpty(PropS(r, "family")),
                   crawler_family_code            |-> OrEmpty(PropS(r, "family_code")),
                   crawler_family_homepage        |-> OrEmpty(PropS(r, "family_homepage")),
                   crawler_family_vendor          |-> OrEmpty(PropS(r, "vendor")),
                   crawler_family_vendor_code     |-> OrEmpty(PropS(r, "vendor_code")),
                   crawler_family_vendor_homepage |-> OrEmpty(PropS(r, "vendor_homepage")),
                   crawler_family_icon            |-> OrEmpty(PropS(r, "family_icon")),
                   crawler_last_seen              |-> OrEmpty(PropS(r, "last_seen")),
                   crawler_category               |-> OrEmpty(PropS(r, "crawler_classification")),
                   crawler_category_code          |-> OrEmpty(PropS(r, "crawler_classification_code")),
                   crawler_respect_robotstxt      |-> OrEmpty(PropS(r, "respect_robotstxt"))])
                  IN  IF PropS(r, "ip_classification_code") = Lit("crawler")
                      THEN SetProp(rip1, "crawler_family_info_url",
                             Lit("https://udger.com/resources/ua-list/bot-detail?bot=")
                             \o OrEmpty(PropS(r, "family")) \o Lit("#id")
                             \o NumOrEmpty(PropI(r, "botid")))
                      ELSE rip1} })
      \* r: the address row joined with its class, crawler and crawler class
      \* (lines 779-809)
      : r \in {
          LET r1 == map(d, "udger_ip_list", q,
                        {"class_id", "crawler_id", "ip_last_seen", "ip_hostname", "ip_country",
                         "ip_city", "ip_country_code"}, {})
              r2 == DelProp(Spread(r1, map(d, "udger_ip_class",
                                           RowAt(d, "udger_ip_class", PropI(r1, "class_id")),
                                           {"ip_classification", "ip_classification_code"}, {})),
                            "class_id")
              r3 == DelProp(Spread(r2, map(d, "udger_crawler_list",
                                           RowAt(d, "udger_crawler_list", PropI(r2, "crawler_id")),
                                           CrawlerListKeys, {<<"id", "botid">>})),
                            "crawler_id")
          IN  DelProp(Spread(r3, map(d, "udger_crawler_class",
                                     RowAt(d, "udger_crawler_class", PropI(r3, "class_id")),
                                     {"crawler_classification", "crawler_classification_code"},
                                     {})),
                      "class_id")} })

\* a miss in udger_ip_list that leaves the classification as it was
ipNotFoundBlank(opts, rip, json) == [udger |-> rip, json |-> json]

\* lines 877-888: no udger_ip_list row
ipNotFound(opts, rip, json) ==
    LET rip1 == Spread(rip, [ip_classification      |-> Lit("Unrecognized"),
                             ip_classification_code |-> Lit("unrecognized")])
    IN  [udger |-> rip1,
         json  |-> IF opts.full
                   THEN DotSet(DotSet(json, <<"classification", "name">>, rip1.ip_classification),
                               <<"classification", "code">>, rip1.ip_classification_code)
                   ELSE DotSet(json, <<"classification">>, rip1.ip_classification_code)]

\* lines 900-922 and 950-972: the datacenter of the range row q
datacenterFound(d, opts, table, res, q) ==
    Only({
      [udger |-> rip,
       json  |-> IF opts.full
                 THEN DotSetAllIf(res.json,
                        << <<<<"datacenter", "name">>, rip.datacenter_name>>,
                           <<<<"datacenter", "code">>, rip.datacenter_name_code>>,
                           <<<<"datacenter", "homepage">>, rip.datacenter_homepage>> >>)
                 ELSE DotSetIf(res.json, <<"datacenter">>, rip.datacenter_name_code)]
      \* rip: the flat record with the datacenter of the row
      : rip \in {
          LET r1 == map(d, table, q, {"datacenter_id"}, {})
              r  == DelProp(Spread(r1, map(d, "udger_datacenter_list",
                                           RowAt(d, "udger_datacenter_list",
                                                 PropI(r1, "datacenter_id")),
                                           {"name", "name_code", "homepage"}, {})),
                            "datacenter_id")
          IN  Spread(res.udger,
                [datacenter_name      |-> OrEmpty(PropS(r, "name")),
                 datacenter_name_code |-> OrEmpty(PropS(r, "name_code")),
                 datacenter_homepage  |-> OrEmpty(PropS(r, "homepage"))])} })

\* lines 890-975: datacenter range of the address
datacenterStage(d, opts, ipver, addr, res) ==
    IF ipver = 4
    THEN Only({
           IF q = NoRow THEN res ELSE datacenterFound(d, opts, "udger_datacenter_range", res, q)
           : q \in {Only({
               findBy(d, "udger_datacenter_range",
                   [rowNo \in DOMAIN d["udger_datacenter_range"].data |->
                    LET row     == d["udger_datacenter_range"].data[rowNo]
                        columns == d["udger_datacenter_range"].columns
                    IN  row[columns.iplong_from + 1] <= ipInt /\ row[columns.iplong_to + 1] >= ipInt])
               : ipInt \in {ip2long(addr)} })} })
    ELSE IF ipver = 6
    THEN Only({
           IF q = NoRow THEN res ELSE datacenterFound(d, opts, "udger_datacenter_range6", res, q)
           : q \in {Only({
               findBy(d, "udger_datacenter_range6",
                   [rowNo \in DOMAIN d["udger_datacenter_range6"].data |->
                    LET row     == d["udger_datacenter_range6"].data[rowNo]
                        columns == d["udger_datacenter_range6"].columns
                    IN
                      \A i \in 0..7 :
                        /\ row[columns["iplong_from" \o ToString(i)] + 1] <= ipInts[i]
                        /\ row[columns["iplong_to" \o ToString(i)] + 1] >= ipInts[i]])
               : ipInts \in {LET t == SplitBy(canonicalForm(addr), ":")
                             IN  [i \in 0..7 |-> HexToInt(t[i + 1])]} })} })
    ELSE res

\* the text looked up when an IPv6 address is not brought to its short form
lookupTextAsGiven(ipver, a) == a

\* lines 762-767: the text looked up in udger_ip_list, an IPv6 address in its
\* short form
lookupText(ipver, a) == IF ipver = 6 THEN inetNtop(inetPton(a)) ELSE a

\* parseIp(ip, opts) on the template tmpl (this.retIp) and the tables d (this.data)
parseIp(d, tmpl, a, opts) ==
    IF ~Truthy(a) THEN [udger |-> tmpl, json |-> EmptyObj]
    ELSE Only({ Only({ Only({
           datacenterStage(d, opts, ipver, addr, res)
           \* res: the result after the lookup in udger_ip_list (lines 757-888)
           : res \in {
               LET rip  == Spread(tmpl, [ip |-> a, ip_ver |-> IpVerValue(ipver)])
                   j0   == DotSet(EmptyObj, <<"ip">>, a)
                   json == IF opts.full THEN DotSet(j0, <<"version">>, IpVerValue(ipver))
                           ELSE j0
               IN  Only({
                     IF q # NoRow THEN ipFound(d, opts, rip, json, q)
                     ELSE ipNotFound(opts, rip, json)
                     : q \in {findBy(d, "udger_ip_list",
                                [rowNo \in DOMAIN d["udger_ip_list"].data |->
                                 LET row     == d["udger_ip_list"].data[rowNo]
                                     columns == d["udger_ip_list"].columns
                                 IN  row[columns.ip + 1] = addr])} })} })
           \* addr: the address looked up
           : addr \in {lookupText(ipver, a)} })
           : ipver \in {getIpVersion(a)} })

-----------------------------------------------------------------------------
(* The tables the model runs on.  Text that is matched against the inputs  *)
(* (ua_string, regstring, ip, device code) is written character by         *)
(* character.                                                              *)

\* most rows of a pattern table in the generated datasets
MaxRows == 2

UaUnknown == <<"z","z">>

UaCrawler == <<"G","b"," ","2",".","1">>

UaClient == <<"F","x"," ","4","0",".","1"," ","W","i","n">>

UaNoOs == <<"F","x"," ","4","0",".","1">>

UaMobile == <<"f","x"," ","M","o","b">>

UaOsOnly == <<"W","i","n",";"," ","K","2"," ",";">>

UaStrings == {UaUnknown, UaCrawler, UaClient, UaNoOs, UaMobile, UaOsOnly}

\* candidate rows of udger_client_regex: <<client_id, word_id, word2_id, regstring>>
ClientRegexRows ==
    << <<0, 11, 0, <<"/","F","x"," ","(","#",")","/","s">>>>,
       <<1, 12, 0, <<"/","f","x","/","s","i">>>>,
       <<1, 13, 0, <<"/","g","b"," ","(","#",")","/","s","i">>>> >>

\* candidate rows of udger_os_regex: <<os_id, word_id, word2_id, regstring>>
OsRegexRows ==
    << <<0, 1, 0, <<"/","W","i","n","/","s">>>>,
       <<1, 7, 0, <<"/","w","i","n","/","s","i">>>> >>

\* candidate rows of udger_deviceclass_regex: <<deviceclass_id, word_id, word2_id, regstring>>
DeviceClassRegexRows ==
    << <<0, 21, 0, <<"/","M","o","b","/","s">>>>,
       <<1, 22, 0, <<"/","m","o","b","/","s","i">>>> >>

\* the orders in which at most MaxRows of n candidate rows can stand in a table
Orders(n) ==
    {o \in UNION {[1..k -> 1..n] : k \in 0..MaxRows} :
        \A i, j \in DOMAIN o : i # j => o[i] # o[j]}

\* a pattern table: the chosen candidates, numbered by the sequence column
PatternTable(cand, o) ==
    [i \in DOMAIN o |-> <<cand[o[i]][1], cand[o[i]][2], cand[o[i]][3], i, cand[o[i]][4]>>]

CrawlerList ==
    << <<9, UaCrawler, Lit("2.1"), Lit("2"), 0, Lit("2019-03-01"), Lit("yes"),
         Lit("Gbot"), Lit("gbot"), Lit("http://gbot.example"), Lit("gbot.png"),
         Lit("G Inc"), Lit("g_inc"), Lit("http://g.example"), Lit("Gbot/2.1")>> >>

CrawlerClass ==
    << <<2, Lit("Search engine bot"), Lit("search_engine_bot")>> >>

ClientList ==
    << <<5, 0, Lit("Firefox"), Lit("firefox"), Lit("http://fx.example"), Lit("fx.png"),
         Lit("fx_big.png"), Lit("Gecko"), Lit("Moz"), Lit("moz"), Lit("http://moz.example"),
         Lit("41")>>,
       <<6, 1, Lit("Fox"), Lit("fox"), Lit("http://fox.example"), Lit("fox.png"),
         Lit("fox_big.png"), Lit("Blink"), Lit("Fox Co"), Lit("fox_co"),
         Lit("http://foxco.example"), EmptyStr>> >>

\* udger_client_class, without and with a row whose id is 99
ClientClassBase ==
    << <<1, Lit("Browser"), Lit("browser"), 1>>,
       <<3, Lit("Mobile browser"), Lit("mobile_browser"), 0>> >>

ClientClassWith99 == ClientClassBase \o << <<99, Lit("Other"), Lit("other"), 0>> >>

OsList ==
    << <<4, Lit("Windows"), Lit("windows"), Lit("Windows 10"), Lit("windows_10"),
         Lit("http://w10.example"), Lit("w10.png"), Lit("w10_big.png"),
         Lit("MS"), Lit("ms"), Lit("http://ms.example")>>,
       <<8, Lit("Windows"), Lit("windows"), Lit("Windows 7"), Lit("windows_7"),
         Lit("http://w7.example"), Lit("w7.png"), Lit("w7_big.png"),
         Lit("MS"), Lit("ms"), Lit("http://ms.example")>> >>

\* udger_client_os_relation: none, or client 6 -> the second OS and client 5 -> the first
OsRelationRows == << <<6, 1>>, <<5, 0>> >>

DeviceClassList ==
    << <<1, Lit("Smartphone"), Lit("smartphone"), Lit("phone.png"), Lit("phone_big.png")>>,
       <<2, Lit("Desktop"), Lit("desktop"), Lit("desktop.png"), Lit("desktop_big.png")>> >>

DeviceNameRegex ==
    << <<1, Lit("windows"), Lit("-all-"), 1, <<"/","W","i","n",";"," ","(","@",")","/","s">>>> >>

\* candidate rows of udger_devicename_regex: <<id, os_family_code, os_code, regstring>>
DeviceNameRegexRows ==
    << <<1, Lit("windows"), Lit("-all-"), <<"/","W","i","n",";"," ","(","@",")","/","s">>>>,
       <<2, Lit("windows"), Lit("windows_7"), <<"/","i","n",";"," ","(","@",")","/","s">>>>,
       <<3, Lit("linux"), Lit("-all-"), <<"/","n",";"," ","(","@",")","/","s">>>>,
       <<4, Lit("windows"), Lit("-all-"), <<"/","W","i","n",";","/","s">>>>,
       <<5, Lit("windows"), Lit("windows_10"), <<"/","w","i","n",";","(","@",")","/","s","i">>>> >>

\* udger_devicename_list: the codes of the patterns 1, 3 and 5; pattern 2 has none
DeviceNameList ==
    << <<1, 0, <<"K","2">>, Lit("Kay Two")>>,
       <<3, 0, <<"K","2">>, Lit("Kay Tux")>>,
       <<5, 0, <<"K","2">>, Lit("Kay Ten")>>,
       <<5, 0, <<"K","3">>, Lit("Kay Three")>> >>

DeviceNameBrand ==
    << <<3, Lit("Kay"), Lit("kay"), Lit("http://kay.example"), Lit("kay.png"),
         Lit("kay_big.png")>> >>

Ip4 == <<"1",".","2",".","3",".","4">>

Ip6 == <<":",":","1">>

\* an IPv6 address that udger_ip_list holds, and a long upper-case form of it
Ip6Listed == <<"a",":",":","1">>

Ip6ListedLong == <<"A",":","0",":","0",":","0",":","0",":","0",":","0",":","1">>

IpList ==
    << <<Ip4, 0, 0, Lit("2019-04-01"), Lit("host.example"), Lit("Utopia"), Lit("Ut City"),
         Lit("UT")>>,
       <<Ip6Listed, 0, NullIdx, Lit("2019-05-01"), Lit("six.example"), Lit("Utopia"),
         Lit("Six City"), Lit("UT")>> >>

IpClass ==
    << <<1, Lit("Crawler"), Lit("crawler"), 1>> >>

\* a wide range, 1.0.0.0 to 1.255.255.255, and a narrow one inside it,
\* 1.2.3.4 to 1.2.3.5
DatacenterRange ==
    << <<0, Lit("1.0.0.0"), Lit("1.255.255.255"), 16777216, 33554431>>,
       <<1, Lit("1.2.3.4"), Lit("1.2.3.5"), 16909060, 16909061>> >>

\* a wide range, :: to ::ffff, and a narrow one inside it, ::1 to ::1
DatacenterRange6 ==
    << <<0, Lit("::"), Lit("::ffff"), 0, 0, 0, 0, 0, 0, 0, 0, 0, 0, 0, 0, 0, 0, 0, 65535>>,
       <<1, Lit("::1"), Lit("::1"), 0, 0, 0, 0, 0, 0, 0, 0, 0, 0, 0, 0, 0, 0, 1, 1>> >>

DatacenterList ==
    << <<7, Lit("Example DC"), Lit("example_dc"), Lit("http://dc.example")>>,
       <<8, Lit("Inner DC"), Lit("inner_dc"), Lit("http://inner.example")>> >>

\* this.data for one choice of the pattern tables, udger_client_class and
\* udger_client_os_relation
Dataset(clientRegex, osRegex, deviceClassRegex, clientClass, osRelation) ==
    MakeData(
      [udger_crawler_list       |-> CrawlerList,
       udger_crawler_class      |-> CrawlerClass,
       udger_client_regex       |-> clientRegex,
       udger_client_list        |-> ClientList,
       udger_client_class       |-> clientClass,
       udger_os_regex           |-> osRegex,
       udger_os_list            |-> OsList,
       udger_client_os_relation |-> osRelation,
       udger_deviceclass_regex  |-> deviceClassRegex,
       udger_deviceclass_list   |-> DeviceClassList,
       udger_devicename_regex   |-> DeviceNameRegex,
       udger_devicename_list    |-> DeviceNameList,
       udger_devicename_brand   |-> DeviceNameBrand,
       udger_ip_list            |-> IpList,
       udger_ip_class           |-> IpClass,
       udger_datacenter_range   |-> DatacenterRange,
       udger_datacenter_range6  |-> DatacenterRange6,
       udger_datacenter_list    |-> DatacenterList])

\* the datasets the classifier is run on
Datasets ==
    {Dataset(PatternTable(ClientRegexRows, oc), PatternTable(OsRegexRows, oo),
             PatternTable(DeviceClassRegexRows, od), cc, rel) :
        oc \in Orders(Len(ClientRegexRows)), oo \in Orders(Len(OsRegexRows)),
        od \in Orders(Len(DeviceClassRegexRows)),
        cc \in {ClientClassBase, ClientClassWith99},
        rel \in {<<>>, OsRelationRows}}

\* the dataset of the handle: every candidate row, in the order written above
HandleData ==
    Dataset(PatternTable(ClientRegexRows, <<1, 2>>), PatternTable(OsRegexRows, <<1, 2>>),
            PatternTable(DeviceClassRegexRows, <<1, 2>>), ClientClassBase, OsRelationRows)

\* the datasets with one OS pattern and a choice of device name patterns,
\* numbered by the sequence column
DeviceNameDatasets ==
    {[HandleData EXCEPT
        !["udger_os_regex"].data = PatternTable(OsRegexRows, <<os>>),
        !["udger_devicename_regex"].data =
            [i \in DOMAIN o |->
                <<DeviceNameRegexRows[o[i]][1], DeviceNameRegexRows[o[i]][2],
                  DeviceNameRegexRows[o[i]][3], i, DeviceNameRegexRows[o[i]][4]>>]] :
        os \in 1..Len(OsRegexRows), o \in Orders(Len(DeviceNameRegexRows))}

\* the datasets of the IP classifier: with and without the rows of
\* udger_ip_list, and with the rows of the two datacenter range tables chosen
\* and ordered in every way
IpDatasets ==
    {[HandleData EXCEPT
        !["udger_ip_list"].data = list,
        !["udger_datacenter_range"].data = [i \in DOMAIN o4 |-> DatacenterRange[o4[i]]],
        !["udger_datacenter_range6"].data = [i \in DOMAIN o6 |-> DatacenterRange6[o6[i]]]] :
        list \in {<<>>, IpList}, o4 \in Orders(Len(DatacenterRange)),
        o6 \in Orders(Len(DatacenterRange6))}

\* the addresses the IP classifier is run on: listed and in a datacenter
\* range, unlisted and in one, unlisted and in none (version 4); unlisted and
\* in a range, listed and in none, in its short and in a long form (version 6);
\* the last address of the wide version 6 range and one that only the seventh
\* group takes out of it; a word and a dotted text of three numbers (no
\* address)
IpStrings ==
    {Ip4, <<"1",".","2",".","3",".","5">>, <<"9",".","9",".","9",".","9">>,
     Ip6, Ip6Listed, ToLowerCase(Ip6ListedLong),
     <<":",":","f","f","f","f">>, <<":",":","1",":","0">>,
     <<"z","z">>, <<"1",".","2",".","3">>}

-----------------------------------------------------------------------------
(* The result cache: this.cache as the sequence of its entries in          *)
(* Object.keys order (the order of insertion; the keys of the model are    *)
(* never array indexes)                                                    *)

\* the position of key in the cache, 0 when absent
cacheIndex(c, key) ==
    IF \E i \in 1..Len(c) : c[i].key = key
    THEN CHOOSE i \in 1..Len(c) : c[i].key = key
    ELSE 0

cacheKeyExist(c, key) == cacheIndex(c, key) # 0

\* a cacheRead that hands out the stored object as it is
cacheReadUnflagged(c, key, opts) == [cache |-> c, val |-> c[cacheIndex(c, key)].val]

\* cacheRead(key, opts): the stored object, flagged in place
cacheRead(c, key, opts) ==
    LET i      == cacheIndex(c, key)
        stored == c[i].val
        flagged == IF opts.json
                   THEN IF opts.full THEN SetProp(stored, "fromCache", TRUE) ELSE stored
                   ELSE SetProp(stored, "from_cache", TRUE)
    IN  [cache |-> [c EXCEPT ![i].val = flagged], val |-> flagged]

\* the while loop of cacheWrite: the first key goes while there are too many
RECURSIVE evict(_, _)
evict(c, max) == IF Len(c) > max THEN evict(Tail(c), max) ELSE c

\* a cacheWrite that replaces the value of a key that is present
cacheWriteLast(c, max, key, val) ==
    IF cacheKeyExist(c, key) THEN [c EXCEPT ![cacheIndex(c, key)].val = val]
    ELSE evict(Append(c, [key |-> key, val |-> val]), max)

\* cacheWrite(key, data)
cacheWrite(c, max, key, val) ==
    IF cacheKeyExist(c, key) THEN c
    ELSE evict(Append(c, [key |-> key, val |-> val]), max)

-----------------------------------------------------------------------------
(* parse(opts) on a connected handle without a cache hit                   *)

\* parse() and parse({}) run the same code: opts is the pair of its two flags
Opts == [json : BOOLEAN, full : BOOLEAN]

NoOpts == [json |-> FALSE, full |-> FALSE]

\* lines 1004-1005: the nested sections, one for each input that is held
jsonSections(d, tUa, tIp, u, a, opts) ==
    LET r0 == EmptyObj
        r1 == IF Truthy(u) THEN SetProp(r0, "userAgent", parseUa(d, tUa, u, opts).json)
              ELSE r0
    IN  IF Truthy(a) THEN SetProp(r1, "ipAddress", parseIp(d, tIp, a, opts).json)
        ELSE r1

\* lines 1008-1010: the flat result
flatResult(d, tUa, tIp, u, a, opts) ==
    [user_agent |-> parseUa(d, tUa, u, opts).udger,
     ip_address |-> parseIp(d, tIp, a, opts).udger,
     from_cache |-> FALSE]

\* the result with the cache flag written in every nested result
parseFreshAlwaysFlagged(d, tUa, tIp, u, a, opts) ==
    IF opts.json
    THEN SetProp(jsonSections(d, tUa, tIp, u, a, opts), "fromCache", FALSE)
    ELSE flatResult(d, tUa, tIp, u, a, opts)

\* lines 1000-1011
parseFresh(d, tUa, tIp, u, a, opts) ==
    IF opts.json
    THEN Only({ IF opts.full THEN SetProp(sections, "fromCache", FALSE) ELSE sections
                : sections \in {jsonSections(d, tUa, tIp, u, a, opts)} })
    ELSE flatResult(d, tUa, tIp, u, a, opts)

\* a parse that serves a key of the cache whether or not the cache is enabled
parseOpenAlwaysCached(d, enabled, max, c, key, tUa, tIp, u, a, opts) ==
    IF cacheKeyExist(c, key)
    THEN Only({ [val |-> rd.val, hit |-> TRUE, cache |-> rd.cache]
                : rd \in {cacheRead(c, key, opts)} })
    ELSE Only({ [val |-> fresh, hit |-> FALSE,
                 cache |-> IF enabled THEN cacheWrite(c, max, key, fresh) ELSE c]
                : fresh \in {parseFresh(d, tUa, tIp, u, a, opts)} })

\* lines 993-1017: parse(opts) once this.db is known to be set
parseOpen(d, enabled, max, c, key, tUa, tIp, u, a, opts) ==
    IF enabled /\ cacheKeyExist(c, key)
    THEN Only({ [val |-> rd.val, hit |-> TRUE, cache |-> rd.cache]
                : rd \in {cacheRead(c, key, opts)} })
    ELSE Only({ [val |-> fresh, hit |-> FALSE,
                 cache |-> IF enabled THEN cacheWrite(c, max, key, fresh) ELSE c]
                : fresh \in {parseFresh(d, tUa, tIp, u, a, opts)} })

\* parse without its first line
parseIgnoringDb(isOpen, d, enabled, max, c, key, tUa, tIp, u, a, opts) ==
    parseOpen(d, enabled, max, c, key, tUa, tIp, u, a, opts)

\* parse(opts): what it returns, whether the cache served it, and this.cache afterwards
parse(isOpen, d, enabled, max, c, key, tUa, tIp, u, a, opts) ==
    IF ~isOpen THEN [val |-> EmptyObj, hit |-> FALSE, cache |-> c]
    ELSE parseOpen(d, enabled, max, c, key, tUa, tIp, u, a, opts)

-----------------------------------------------------------------------------
(* set(data)                                                               *)

\* the arguments set() is called with: undefined, a string, or an object
\* given by its properties in key order
ArgUndefined == [kind |-> "undefined", props |-> <<>>]

ArgString == [kind |-> "string", props |-> <<>>]

ArgObject(props) == [kind |-> "object", props |-> props]

SetArgs ==
    {ArgUndefined, ArgString,
     ArgObject(<< <<"ua", UaUnknown>> >>),
     ArgObject(<< <<"ua", UaClient>> >>),
     ArgObject(<< <<"ua", EmptyStr>> >>),
     ArgObject(<< <<"ip", Ip4>> >>),
     ArgObject(<< <<"ip", Ip6ListedLong>> >>),
     ArgObject(<< <<"ua", UaCrawler>>, <<"ip", Ip6>> >>),
     ArgObject(<< <<"ua", UaMobile>>, <<"foo", Lit("1")>> >>),
     ArgObject(<< <<"foo", Lit("1")>>, <<"ua", UaMobile>> >>)}

\* a loop in which an ip takes the place of everything held: the ua is dropped
RECURSIVE setLoopIpAlone(_, _)
setLoopIpAlone(props, st) ==
    IF props = <<>> THEN st
    ELSE LET key == Head(props)[1]
             v   == Head(props)[2]
         IN  IF key = "ua" THEN setLoopIpAlone(Tail(props), [st EXCEPT !.ua = v])
             ELSE IF key = "ip"
             THEN IF v \in {UndefS, NullS} THEN [st EXCEPT !.threw = TRUE]
                  ELSE setLoopIpAlone(Tail(props),
                                      [st EXCEPT !.ip = ToLowerCase(v), !.ua = NullS])
             ELSE [st EXCEPT !.threw = TRUE]

\* the for-in loop of set(): the keys are taken in order and the first key
\* that is neither ua nor ip throws
RECURSIVE setLoop(_, _)
setLoop(props, st) ==
    IF props = <<>> THEN st
    ELSE LET key == Head(props)[1]
             v   == Head(props)[2]
         IN  IF key = "ua" THEN setLoop(Tail(props), [st EXCEPT !.ua = v])
             ELSE IF key = "ip"
             THEN IF v \in {UndefS, NullS} THEN [st EXCEPT !.threw = TRUE]
                  ELSE setLoop(Tail(props), [st EXCEPT !.ip = ToLowerCase(v)])
             ELSE [st EXCEPT !.threw = TRUE]

\* a key with the ua ahead of the ip
buildKeyCacheUaFirst(enabled, u, a) ==
    IF enabled
    THEN (IF Truthy(u) THEN u ELSE EmptyStr) \o (IF Truthy(a) THEN a ELSE EmptyStr)
    ELSE EmptyStr

\* the key set() builds for the cache
buildKeyCache(enabled, u, a) ==
    IF enabled
    THEN (IF Truthy(a) THEN a ELSE EmptyStr) \o (IF Truthy(u) THEN u ELSE EmptyStr)
    ELSE EmptyStr

-----------------------------------------------------------------------------
(* The handle                                                              *)

DefaultCacheMaxRecords == 4000

CacheSizes == {0, 1}

NoCall == [op |-> "none", arg |-> <<>>]

Returned(v) == [threw |-> FALSE, val |-> v, hit |-> FALSE]

Threw == [threw |-> TRUE, val |-> UndefS, hit |-> FALSE]

\* the state the constructor leaves
Constructed ==
    /\ db = TRUE
    /\ ua = NullS
    /\ ip = NullS
    /\ cacheEnable = FALSE
    /\ cacheMaxRecords = DefaultCacheMaxRecords
    /\ cache = <<>>
    /\ keyCache = EmptyStr
    /\ retUa = EmptyObj
    /\ retIp = EmptyObj
    /\ call = NoCall
    /\ ret = Returned(UndefS)
    /\ ncalls = 0
    /\ setCalled = FALSE

Init ==
    /\ Constructed
    /\ data = HandleData

Called(op, arg) ==
    /\ ncalls < MaxCalls
    /\ ncalls' = ncalls + 1
    /\ call' = [op |-> op, arg |-> arg]

\* a connect() that starts from an empty cache
ConnectFresh ==
    /\ Called("connect", <<>>)
    /\ db' = TRUE
    /\ ret' = Returned(~db)
    /\ cache' = <<>>
    /\ UNCHANGED <<ua, ip, cacheEnable, cacheMaxRecords, keyCache, retUa, retIp,
                   data, setCalled>>

Connect ==
    /\ Called("connect", <<>>)
    /\ db' = TRUE
    /\ ret' = Returned(~db)
    /\ UNCHANGED <<ua, ip, cacheEnable, cacheMaxRecords, cache, keyCache, retUa, retIp,
                   data, setCalled>>

\* a disconnect() that reports a close whether or not a connection was open
DisconnectAlwaysTrue ==
    /\ Called("disconnect", <<>>)
    /\ db' = FALSE
    /\ ret' = Returned(TRUE)
    /\ UNCHANGED <<ua, ip, cacheEnable, cacheMaxRecords, cache, keyCache, retUa, retIp,
                   data, setCalled>>

Disconnect ==
    /\ Called("disconnect", <<>>)
    /\ db' = FALSE
    /\ ret' = Returned(db)
    /\ UNCHANGED <<ua, ip, cacheEnable, cacheMaxRecords, cache, keyCache, retUa, retIp,
                   data, setCalled>>

Set(arg) ==
    /\ Called("set", arg)
    /\ setCalled' = TRUE
    /\ IF arg.kind # "object"
       THEN /\ ret' = Threw
            /\ UNCHANGED <<ua, ip, keyCache, retUa, retIp>>
       ELSE LET st == setLoop(arg.props, [ua |-> ua, ip |-> ip, threw |-> FALSE])
            IN  /\ ua' = st.ua
                /\ ip' = st.ip
                /\ IF st.threw
                   THEN /\ ret' = Threw
                        /\ UNCHANGED <<keyCache, retUa, retIp>>
                   ELSE /\ ret' = Returned(UndefS)
                        /\ keyCache' = buildKeyCache(cacheEnable, st.ua, st.ip)
                        /\ retUa' = defaultRet.user_agent
                        /\ retIp' = defaultRet.ip_address
    /\ UNCHANGED <<db, cacheEnable, cacheMaxRecords, cache, data>>

SetCacheEnable(b) ==
    /\ Called("setCacheEnable", b)
    /\ cacheEnable' = b
    /\ ret' = Returned(UndefS)
    /\ UNCHANGED <<db, ua, ip, cacheMaxRecords, cache, keyCache, retUa, retIp, data, setCalled>>

SetCacheSize(n) ==
    /\ Called("setCacheSize", n)
    /\ cacheMaxRecords' = n
    /\ ret' = Returned(UndefS)
    /\ UNCHANGED <<db, ua, ip, cacheEnable, cache, keyCache, retUa, retIp, data, setCalled>>

CacheClean ==
    /\ Called("cacheClean", <<>>)
    /\ cache' = <<>>
    /\ ret' = Returned(UndefS)
    /\ UNCHANGED <<db, ua, ip, cacheEnable, cacheMaxRecords, keyCache, retUa, retIp,
                   data, setCalled>>

\* a parse() whose parseUa and parseIp fill the templates themselves, not
\* copies of them
ParseOnTemplates(opts) ==
    /\ Called("parse", opts)
    /\ \E p \in {parse(db, data, cacheEnable, cacheMaxRecords, cache, keyCache,
                       retUa, retIp, ua, ip, opts)} :
           /\ ret' = [threw |-> FALSE, val |-> p.val, hit |-> p.hit]
           /\ cache' = p.cache
    /\ retUa' = IF db THEN parseUa(data, retUa, ua, opts).udger ELSE retUa
    /\ retIp' = IF db THEN parseIp(data, retIp, ip, opts).udger ELSE retIp
    /\ UNCHANGED <<db, ua, ip, cacheEnable, cacheMaxRecords, keyCache, data, setCalled>>

Parse(opts) ==
    /\ Called("parse", opts)
    /\ \E p \in {parse(db, data, cacheEnable, cacheMaxRecords, cache, keyCache,
                       retUa, retIp, ua, ip, opts)} :
           /\ ret' = [threw |-> FALSE, val |-> p.val, hit |-> p.hit]
           /\ cache' = p.cache
    /\ UNCHANGED <<db, ua, ip, cacheEnable, cacheMaxRecords, keyCache, retUa, retIp,
                   data, setCalled>>

Next ==
    \/ Connect
    \/ Disconnect
    \/ \E arg \in SetArgs : Set(arg)
    \/ \E b \in BOOLEAN : SetCacheEnable(b)
    \/ \E n \in CacheSizes : SetCacheSize(n)
    \/ CacheClean
    \/ \E opts \in Opts : Parse(opts)

Spec == Init /\ [][Next]_vars

-----------------------------------------------------------------------------
(* The User-Agent classifier on its own: parseUa applied to every input    *)
(* over every dataset, on a handle whose templates set() has filled        *)

InitUa ==
    /\ db = TRUE
    /\ ua = NullS
    /\ ip = NullS
    /\ cacheEnable = FALSE
    /\ cacheMaxRecords = DefaultCacheMaxRecords
    /\ cache = <<>>
    /\ keyCache = EmptyStr
    /\ retUa = defaultRet.user_agent
    /\ retIp = defaultRet.ip_address
    /\ call = NoCall
    /\ ret = Returned(UndefS)
    /\ ncalls = 0
    /\ setCalled = TRUE
    /\ data \in Datasets \cup DeviceNameDatasets

ParseUaCall(u, opts) ==
    /\ call = NoCall
    /\ call' = [op |-> "parseUa", arg |-> [ua |-> u, opts |-> opts]]
    /\ ret' = Returned(parseUa(data, retUa, u, opts))
    /\ UNCHANGED <<handle, data, ncalls, setCalled>>

NextUa == \E u \in UaStrings, opts \in Opts : ParseUaCall(u, opts)

SpecUa == InitUa /\ [][NextUa]_vars

-----------------------------------------------------------------------------
(* The IP classifier on its own: parseIp applied to every address over     *)
(* every dataset, on a handle whose templates set() has filled             *)

InitIp ==
    /\ db = TRUE
    /\ ua = NullS
    /\ ip = NullS
    /\ cacheEnable = FALSE
    /\ cacheMaxRecords = DefaultCacheMaxRecords
    /\ cache = <<>>
    /\ keyCache = EmptyStr
    /\ retUa = defaultRet.user_agent
    /\ retIp = defaultRet.ip_address
    /\ call = NoCall
    /\ ret = Returned(UndefS)
    /\ ncalls = 0
    /\ setCalled = TRUE
    /\ data \in IpDatasets

ParseIpCall(a, opts) ==
    /\ call = NoCall
    /\ call' = [op |-> "parseIp", arg |-> [ip |-> a, opts |-> opts]]
    /\ ret' = Returned(parseIp(data, retIp, a, opts))
    /\ UNCHANGED <<handle, data, ncalls, setCalled>>

NextIp == \E a \in IpStrings, opts \in Opts : ParseIpCall(a, opts)

SpecIp == InitIp /\ [][NextIp]_vars

-----------------------------------------------------------------------------
(* Connection lifecycle                                                    *)

\* C1: every connect() and every disconnect() returns true exactly when it
\* changes the connection state: disconnect() returns true and closes when a
\* connection is open and false when none is; connect() returns true and
\* opens when none is open and false when one is.
C1_ReturnsTrueIffStateChanges ==
    [][/\ call'.op = "disconnect" =>
            /\ ~ret'.threw
            /\ ret'.val = db
            /\ ret'.val = (db' # db)
            /\ ~db'
       /\ call'.op = "connect" =>
            /\ ~ret'.threw
            /\ ret'.val = ~db
            /\ ret'.val = (db' # db)
            /\ db']_vars

\* a disconnect() answered false has been followed by a connect() answered true
\* and a connect() answered false
C1_Witness ==
    /\ ncalls >= 3
    /\ call.op = "connect"
    /\ ret.val = FALSE
    /\ db

\* C2: while the handle is disconnected parse() returns {} whatever ua, ip,
\* options and cache it holds, does not throw, and leaves ua, ip, the cache
\* key, the cache and the templates as they were.
C2_DisconnectedParseIsEmpty ==
    [][(call'.op = "parse" /\ ~db) =>
          /\ ~ret'.threw
          /\ ret'.val = EmptyObj
          /\ UNCHANGED <<ua, ip, keyCache, cache, retUa, retIp>>]_vars

\* parse() was called on a disconnected handle whose cache is enabled and
\* holds an entry for the current key
C2_Witness ==
    /\ call.op = "parse"
    /\ ~db
    /\ cacheEnable
    /\ cacheKeyExist(cache, keyCache)
    /\ ret.val = EmptyObj

\* what parse(opts) would return now if the connection were open
WouldReturn(opts) ==
    parseOpen(data, cacheEnable, cacheMaxRecords, cache, keyCache, retUa, retIp,
              ua, ip, opts).val

\* the result of parse() on a handle that has no input and no template
EmptyFlatResult == [from_cache |-> FALSE, ip_address |-> EmptyObj, user_agent |-> EmptyObj]

\* disconnect() leaves everything parse() reads as it was, and once connect()
\* has reopened the handle parse(opts) returns what it would have returned
\* before the reopening, for every opts
ReconnectKeepsResults ==
    /\ call'.op = "disconnect" =>
           UNCHANGED <<data, cacheEnable, cacheMaxRecords, cache, keyCache, retUa, retIp,
                       ua, ip>>
    /\ (call'.op = "connect" /\ ~db) =>
           \A opts \in Opts :
               parseOpen(data', cacheEnable', cacheMaxRecords', cache', keyCache', retUa',
                         retIp', ua', ip', opts).val = WouldReturn(opts)

\* C3 as stated: classification is retriable after a reconnect, and on a
\* connected handle on which set() was never called parse() without options
\* returns exactly {from_cache: false, ip_address: {}, user_agent: {}}.
C3_Original ==
    [][/\ ReconnectKeepsResults
       /\ (call'.op = "parse" /\ call'.arg = NoOpts /\ db /\ ~setCalled) =>
              ret'.val = EmptyFlatResult]_vars

\* C3 amended: classification is retriable after a reconnect, and on a
\* connected handle on which set() was never called parse() without options
\* returns exactly {from_cache: false, ip_address: {}, user_agent: {}} whenever
\* the call is not served from the cache.
C3_RetriableAfterReconnect ==
    [][/\ ReconnectKeepsResults
       /\ (call'.op = "parse" /\ call'.arg = NoOpts /\ db /\ ~setCalled /\ ~ret'.hit) =>
              ret'.val = EmptyFlatResult]_vars

\* a connect() has reopened a handle whose cache is enabled and holds an
\* entry for the current key
C3_Witness ==
    /\ call.op = "connect"
    /\ ret.val = TRUE
    /\ cacheEnable
    /\ cacheKeyExist(cache, keyCache)

-----------------------------------------------------------------------------
(* The shape of the results of parse()                                     *)

HasUaSection(v) == "user_agent" \in DOMAIN v \/ "userAgent" \in DOMAIN v

HasIpSection(v) == "ip_address" \in DOMAIN v \/ "ipAddress" \in DOMAIN v

HasCacheFlag(v) ==
    \/ "from_cache" \in DOMAIN v /\ v.from_cache \in BOOLEAN
    \/ "fromCache" \in DOMAIN v /\ v.fromCache \in BOOLEAN

\* C4 as stated: every result of parse() on a connected handle, whatever json
\* and full are and whether or not ua and ip are set, has a user-agent
\* section, an IP section and a boolean cache flag.
C4_Original ==
    (call.op = "parse" /\ db) =>
        HasUaSection(ret.val) /\ HasIpSection(ret.val) /\ HasCacheFlag(ret.val)

\* the properties a nested result computed for the held inputs has
JsonKeys(opts) ==
    (IF Truthy(ua) THEN {"userAgent"} ELSE {})
    \cup (IF Truthy(ip) THEN {"ipAddress"} ELSE {})
    \cup (IF opts.full THEN {"fromCache"} ELSE {})

\* C4 amended: on a connected handle a parse() that the cache does not serve
\* returns, with json unset, both sections (the template when the input is
\* absent) and from_cache = false; with json set, userAgent exactly when a
\* non-empty ua is held, ipAddress exactly when a non-empty ip is held and
\* fromCache = false exactly when full is set.  A parse() that the cache
\* serves returns the stored object, whatever call stored it, after setting
\* from_cache (json unset) or fromCache (json and full set) to true on it.
C4_ResultShape ==
    (call.op = "parse" /\ db) =>
        IF ret.hit
        THEN /\ cacheKeyExist(cache, keyCache)
             /\ ret.val = cache[cacheIndex(cache, keyCache)].val
             /\ ~call.arg.json => PropS(ret.val, "from_cache") = TRUE
             /\ (call.arg.json /\ call.arg.full) => PropS(ret.val, "fromCache") = TRUE
        ELSE IF call.arg.json
        THEN /\ DOMAIN ret.val = JsonKeys(call.arg)
             /\ call.arg.full => ret.val.fromCache = FALSE
        ELSE /\ DOMAIN ret.val = {"user_agent", "ip_address", "from_cache"}
             /\ ret.val.from_cache = FALSE
             /\ ~Truthy(ua) => ret.val.user_agent = retUa
             /\ ~Truthy(ip) => ret.val.ip_address = retIp

\* parse({json: true}) has returned a fresh result for a handle that holds a
\* ua and no ip: the result has the userAgent property and nothing else
C4_Witness ==
    /\ call.op = "parse"
    /\ db
    /\ ~ret.hit
    /\ call.arg = [json |-> TRUE, full |-> FALSE]
    /\ Truthy(ua)
    /\ ~Truthy(ip)
    /\ DOMAIN ret.val = {"userAgent"}

\* the string u equals no crawler ua_string and matches no client, OS or
\* device class pattern
Unmatched(d, u) ==
    /\ \A i \in 1..Len(d["udger_crawler_list"].data) :
           d["udger_crawler_list"].data[i][d["udger_crawler_list"].columns.ua_string + 1] # u
    /\ \A table \in {"udger_client_regex", "udger_os_regex", "udger_deviceclass_regex"} :
           \A i \in 1..Len(d[table].data) :
               ~JsMatch(u, phpRegexpToJs(d[table].data[i][d[table].columns.regstring + 1])).found

\* {userAgent: {ua: {string: u, class: {name: 'Unrecognized', code: 'unrecognized'}}},
\*  fromCache: false}
UnrecognizedResult(u) ==
    [userAgent |-> (<<"ua", "string">> :> u)
                   @@ (<<"ua", "class", "name">> :> Lit("Unrecognized"))
                   @@ (<<"ua", "class", "code">> :> Lit("unrecognized")),
     fromCache |-> FALSE]

FullJson == [json |-> TRUE, full |-> TRUE]

\* C5 as stated: for a UA string that equals no crawler ua_string and matches
\* no pattern, with no ip set and the cache disabled, parse({json: true,
\* full: true}) on a connected handle returns exactly the unrecognized result.
C5_Original ==
    (/\ call.op = "parse" /\ call.arg = FullJson /\ db /\ ~cacheEnable
     /\ ~Truthy(ip) /\ ua \notin {NullS, UndefS} /\ Unmatched(data, ua)) =>
        ret.val = UnrecognizedResult(ua)

\* C5 amended: for a non-empty UA string that equals no crawler ua_string and
\* matches no pattern, with no ip set and the cache disabled,
\* parse({json: true, full: true}) on a connected handle returns exactly the
\* unrecognized result.
C5_UnrecognizedUa ==
    (/\ call.op = "parse" /\ call.arg = FullJson /\ db /\ ~cacheEnable
     /\ ~Truthy(ip) /\ Truthy(ua) /\ Unmatched(data, ua)) =>
        ret.val = UnrecognizedResult(ua)

C5_Witness ==
    /\ call.op = "parse"
    /\ call.arg = FullJson
    /\ db
    /\ ~cacheEnable
    /\ ip = NullS
    /\ ua = UaUnknown
    /\ Unmatched(data, ua)
    /\ ret.val = UnrecognizedResult(UaUnknown)

-----------------------------------------------------------------------------
(* Malformed calls of set()                                                *)

\* no argument, a string, or an object with a key other than ua and ip
Malformed(arg) ==
    \/ arg.kind # "object"
    \/ \E i \in 1..Len(arg.props) : arg.props[i][1] \notin {"ua", "ip"}

\* C6: a malformed set() throws, and the handle's ua, ip, cache key and
\* templates are exactly what they were before the call, whatever the order
\* of the keys of the object.
C6_Original ==
    [][(call'.op = "set" /\ Malformed(call'.arg)) =>
           /\ ret'.threw
           /\ UNCHANGED <<ua, ip, keyCache, retUa, retIp>>]_vars

-----------------------------------------------------------------------------
(* The result cache of a handle: the calls that read and write this.cache  *)
(* on a handle whose cache has been enabled and whose inputs have been set *)

\* the inputs of the handle
CacheSetArgs ==
    {ArgObject(<< <<"ua", UaMobile>> >>),
     ArgObject(<< <<"ua", UaCrawler>>, <<"ip", Ip6>> >>)}

\* the keys and the values cacheWrite() is called with
CacheKeys == {UaMobile, Lit("k")}

CacheValues == {[note |-> Lit("first")], [note |-> Lit("second")]}

\* the handle after new UdgerParser(), setCacheEnable(true) and set(arg)
InitCache ==
    \E arg \in CacheSetArgs :
        \E st \in {setLoop(arg.props, [ua |-> NullS, ip |-> NullS, threw |-> FALSE])} :
            /\ db = TRUE
            /\ ua = st.ua
            /\ ip = st.ip
            /\ cacheEnable = TRUE
            /\ cacheMaxRecords = DefaultCacheMaxRecords
            /\ cache = <<>>
            /\ keyCache = buildKeyCache(TRUE, st.ua, st.ip)
            /\ retUa = defaultRet.user_agent
            /\ retIp = defaultRet.ip_address
            /\ call = NoCall
            /\ ret = Returned(UndefS)
            /\ ncalls = 0
            /\ setCalled = TRUE
            /\ data = HandleData

CacheWrite(key, val) ==
    /\ Called("cacheWrite", [key |-> key, val |-> val])
    /\ cache' = cacheWrite(cache, cacheMaxRecords, key, val)
    /\ ret' = Returned(UndefS)
    /\ UNCHANGED <<db, ua, ip, cacheEnable, cacheMaxRecords, keyCache, retUa, retIp,
                   data, setCalled>>

NextCache ==
    \/ \E arg \in CacheSetArgs : Set(arg)
    \/ \E b \in BOOLEAN : SetCacheEnable(b)
    \/ \E n \in CacheSizes : SetCacheSize(n)
    \/ CacheClean
    \/ \E key \in CacheKeys, val \in CacheValues : CacheWrite(key, val)
    \/ \E opts \in Opts : Parse(opts)

SpecCache == InitCache /\ [][NextCache]_vars

-----------------------------------------------------------------------------
(* The cascade of parseUa                                                  *)

\* the crawler row whose ua_string is exactly u
CrawlerRowOf(d, u) ==
    findBy(d, "udger_crawler_list",
          [rowNo \in DOMAIN d["udger_crawler_list"].data |->
           LET row     == d["udger_crawler_list"].data[rowNo]
               columns == d["udger_crawler_list"].columns
           IN  row[columns.ua_string + 1] = u])

\* the positions of the rows of a pattern table whose pattern matches u
MatchingRows(d, table, u) ==
    {i \in 1..Len(d[table].data) :
        JsMatch(u, phpRegexpToJs(d[table].data[i][d[table].columns.regstring + 1])).found}

Earliest(S) == CHOOSE i \in S : \A j \in S : i <= j

\* the tables d with the rows of one table replaced
WithTable(d, table, rows) == [d EXCEPT ![table].data = rows]

\* the cell of a row under a column name
Cell(d, table, row, column) == row[d[table].columns[column] + 1]

\* C7: for a UA string that is exactly the ua_string of a crawler row, parseUa
\* returns class Crawler / crawler with name, version, family and vendor taken
\* from that row, and the client pattern table is not consulted: the result is
\* the one obtained with an empty client pattern table.
C7_CrawlerExactMatch ==
    (call.op = "parseUa" /\ CrawlerRowOf(data, call.arg.ua) # NoRow) =>
        LET q   == CrawlerRowOf(data, call.arg.ua)
            rua == ret.val.udger
            c(column) == Cell(data, "udger_crawler_list", q, column)
        IN  /\ rua.ua_class = Lit("Crawler")
            /\ rua.ua_class_code = Lit("crawler")
            /\ rua.ua = c("name")
            /\ rua.ua_version = c("ver")
            /\ rua.ua_version_major = c("ver_major")
            /\ rua.ua_family = c("family")
            /\ rua.ua_family_code = c("family_code")
            /\ rua.ua_family_vendor = c("vendor")
            /\ rua.ua_family_vendor_code = c("vendor_code")
            /\ rua.ua_family_vendor_homepage = c("vendor_homepage")
            /\ ret.val.json[IF call.arg.opts.full THEN <<"ua", "class", "code">>
                            ELSE <<"ua", "class">>] = Lit("crawler")
            /\ "udger_client_regex" \notin ret.val.used
            /\ ret.val = parseUa(WithTable(data, "udger_client_regex", <<>>), retUa,
                                 call.arg.ua, call.arg.opts)

\* parseUa has classified a crawler string that a client pattern matches too
C7_Witness ==
    /\ call.op = "parseUa"
    /\ call.arg.ua = UaCrawler
    /\ CrawlerRowOf(data, UaCrawler) # NoRow
    /\ MatchingRows(data, "udger_client_regex", UaCrawler) # {}
    /\ ret.val.udger.ua_class = Lit("Crawler")
    /\ ret.val.udger.ua = Lit("Gbot/2.1")

DeviceClassFields ==
    {"device_class", "device_class_code", "device_class_icon", "device_class_icon_big",
     "device_class_info_url"}

\* C8: for a UA string that is exactly the ua_string of a crawler row and that
\* no device class pattern matches, the ClientClass table is not consulted and
\* the device_class fields stay empty, whatever rows the ClientClass table has.
C8_Original ==
    (/\ call.op = "parseUa"
     /\ CrawlerRowOf(data, call.arg.ua) # NoRow
     /\ MatchingRows(data, "udger_deviceclass_regex", call.arg.ua) = {}) =>
        /\ "udger_client_class" \notin ret.val.used
        /\ \A f \in DeviceClassFields : ret.val.udger[f] = EmptyStr

\* the tables d with the rows after the first match of u removed from a table
UpToFirstMatch(d, table, u) ==
    IF MatchingRows(d, table, u) = {} THEN d
    ELSE WithTable(d, table, SubSeq(d[table].data, 1, Earliest(MatchingRows(d, table, u))))

\* the row of a list table that the first matching row of a pattern table names
FirstListRow(d, table, idColumn, list, u) ==
    RowAt(d, list,
          Cell(d, table, d[table].data[Earliest(MatchingRows(d, table, u))], idColumn))

\* C9: in the client, OS and device class pattern tables, when two or more
\* rows match the UA string the result reflects only the earliest of them: it
\* names the client, OS or device class of that row, and it is the result
\* obtained with the rows after the first match removed.
C9_FirstMatchWins ==
    call.op = "parseUa" =>
        LET u == call.arg.ua
            several(table) == Cardinality(MatchingRows(data, table, u)) >= 2
            same(table) == ret.val = parseUa(UpToFirstMatch(data, table, u), retUa, u,
                                             call.arg.opts)
        IN  /\ several("udger_client_regex") =>
                /\ same("udger_client_regex")
                /\ CrawlerRowOf(data, u) = NoRow =>
                       ret.val.udger.ua_family =
                           Cell(data, "udger_client_list",
                                FirstListRow(data, "udger_client_regex", "client_id",
                                             "udger_client_list", u), "name")
            /\ several("udger_os_regex") =>
                /\ same("udger_os_regex")
                /\ ret.val.udger.os =
                       Cell(data, "udger_os_list",
                            FirstListRow(data, "udger_os_regex", "os_id",
                                         "udger_os_list", u), "name")
            /\ several("udger_deviceclass_regex") =>
                /\ same("udger_deviceclass_regex")
                /\ ret.val.udger.device_class =
                       Cell(data, "udger_deviceclass_list",
                            FirstListRow(data, "udger_deviceclass_regex", "deviceclass_id",
                                         "udger_deviceclass_list", u), "name")

\* parseUa has classified a string that two client patterns and two OS
\* patterns match, the later rows naming another client and another OS
C9_Witness ==
    /\ call.op = "parseUa"
    /\ call.arg.ua = UaClient
    /\ Cardinality(MatchingRows(data, "udger_client_regex", UaClient)) >= 2
    /\ Cardinality(MatchingRows(data, "udger_os_regex", UaClient)) >= 2
    /\ ret.val.udger.ua_family = Lit("Fox")
    /\ ret.val.udger.os = Lit("Windows 7")

OsFieldNames ==
    {"os", "os_code", "os_homepage", "os_icon", "os_icon_big", "os_info_url", "os_family",
     "os_family_code", "os_family_vendor", "os_family_vendor_code",
     "os_family_vendor_homepage"}

\* the OS fields that the first matching OS pattern gives
DirectOsFields(d, u) ==
    osFields(map(d, "udger_os_list",
                 FirstListRow(d, "udger_os_regex", "os_id", "udger_os_list", u),
                 OsListKeys, {<<"id", "os_id">>}))

\* C10: the ClientOsRelation table is consulted only when no OS pattern
\* matched the UA and a client pattern did; whenever an OS pattern matched, or
\* no client matched (every crawler UA included), the table is not consulted
\* and the OS fields are those of the direct match or stay empty.
C10_OsFallbackGuard ==
    (call.op = "parseUa" /\ Truthy(call.arg.ua)) =>
        LET u         == call.arg.ua
            osHit     == MatchingRows(data, "udger_os_regex", u) # {}
            clientHit == /\ CrawlerRowOf(data, u) = NoRow
                         /\ MatchingRows(data, "udger_client_regex", u) # {}
            consulted == "udger_client_os_relation" \in ret.val.used
        IN  /\ consulted => (~osHit /\ clientHit)
            /\ (osHit \/ ~clientHit) =>
                  /\ ~consulted
                  /\ \A f \in OsFieldNames :
                        ret.val.udger[f] = IF osHit THEN DirectOsFields(data, u)[f]
                                           ELSE EmptyStr

\* parseUa has consulted the relation table for a string with a client and
\* without an OS, over a relation table that has rows
C10_Witness ==
    /\ call.op = "parseUa"
    /\ call.arg.ua = UaNoOs
    /\ MatchingRows(data, "udger_client_regex", UaNoOs) # {}
    /\ MatchingRows(data, "udger_os_regex", UaNoOs) = {}
    /\ data["udger_client_os_relation"].data # <<>>
    /\ "udger_client_os_relation" \in ret.val.used

-----------------------------------------------------------------------------
(* The device marketname stage                                             *)

DeviceNameFields ==
    {"device_marketname", "device_brand", "device_brand_code", "device_brand_homepage",
     "device_brand_icon", "device_brand_icon_big", "device_brand_info_url"}

\* the tables d without any device name pattern and without any device name
WithoutDeviceNames(d) ==
    WithTable(WithTable(d, "udger_devicename_regex", <<>>), "udger_devicename_list", <<>>)

\* C11: device marketname matching runs only when an OS family code is
\* known: when the result has no os_family_code the device name tables are
\* not consulted, device_marketname and every device_brand field are empty
\* in the flat and in the nested result, and the result is the one obtained
\* with empty device name tables, whichever device name rows match the UA.
C11_MarketnameNeedsOsFamily ==
    (call.op = "parseUa" /\ ~Truthy(ret.val.udger.os_family_code)) =>
        /\ "udger_devicename_regex" \notin ret.val.used
        /\ "udger_devicename_list" \notin ret.val.used
        /\ \A f \in DeviceNameFields : ret.val.udger[f] = EmptyStr
        /\ \A p \in DOMAIN ret.val.json :
              ~IsPrefix(<<"device", "marketName">>, p) /\ ~IsPrefix(<<"device", "brand">>, p)
        /\ ret.val = parseUa(WithoutDeviceNames(data), retUa, call.arg.ua, call.arg.opts)

\* parseUa has returned without an OS family for a string that a device name
\* pattern matches with a captured code that the device name list holds
C11_Witness ==
    /\ call.op = "parseUa"
    /\ call.arg.ua = UaOsOnly
    /\ ret.val.udger.os_family_code = EmptyStr
    /\ \E i \in MatchingRows(data, "udger_devicename_regex", UaOsOnly) :
          \E row \in {data["udger_devicename_regex"].data[i]} :
             \E g \in {JsMatch(UaOsOnly, phpRegexpToJs(Cell(data, "udger_devicename_regex", row, "regstring")))} :
                /\ Truthy(g.g1)
                /\ \E j \in 1..Len(data["udger_devicename_list"].data) :
                      /\ Cell(data, "udger_devicename_list", data["udger_devicename_list"].data[j], "regex_id")
                            = Cell(data, "udger_devicename_regex", row, "id")
                      /\ Cell(data, "udger_devicename_list", data["udger_devicename_list"].data[j], "code")
                            = Trim(g.g1)
    /\ ret.val.udger.device_marketname = EmptyStr

-----------------------------------------------------------------------------
(* Textual forms of an IPv6 address                                        *)

\* short and long forms of the two IPv6 addresses of the tables, and of a third
Ip6Forms ==
    {Ip6, <<"0",":","0",":","0",":","0",":","0",":","0",":","0",":","1">>,
     <<"0","0","0","0",":",":","0","0","0","1">>,
     Ip6Listed, ToLowerCase(Ip6ListedLong),
     <<"0","0","0","a",":",":","0","0","0","1">>,
     <<"a",":","0",":",":","1">>,
     <<"a",":","0",":","0",":","1",":",":">>}

SameAddress(f, g) ==
    /\ getIpVersion(f) = 6
    /\ getIpVersion(g) = 6
    /\ inetPton(f) = inetPton(g)

\* what set({ip: f}) followed by parse(opts) computes on the handle as it is
ParseOfForm(f, opts) == parseFresh(data, retUa, retIp, ua, ToLowerCase(f), opts)

\* a result of parse() without the text of the address
WithoutIpText(v, opts) ==
    IF opts.json
    THEN [v EXCEPT !.ipAddress = [p \in DOMAIN v.ipAddress \ {<<"ip">>} |-> v.ipAddress[p]]]
    ELSE [v EXCEPT !.ip_address.ip = EmptyStr]

\* parse() has computed its result for an IPv6 address
ParsedIp6 ==
    /\ call.op = "parse"
    /\ db
    /\ ~ret.hit
    /\ getIpVersion(ip) = 6

\* C12 as stated: for every IPv6 address, set({ip}) followed by parse(opts) on
\* a compressed and on an expanded textual form of the same address gives
\* identical results, in the flat and in the nested output.
C12_Original ==
    ParsedIp6 =>
        \A f \in Ip6Forms :
            SameAddress(f, ip) => ParseOfForm(f, call.arg) = ret.val

\* C12 amended: for every IPv6 address, set({ip}) followed by parse(opts) on
\* a compressed and on an expanded textual form of the same address gives
\* results that are identical, in the flat and in the nested output, apart
\* from the ip field, which holds the text given to set() in lower case.
C12_SameApartFromIpText ==
    ParsedIp6 =>
        /\ IF call.arg.json THEN ret.val.ipAddress[<<"ip">>] = ip
           ELSE ret.val.ip_address.ip = ip
        /\ \A f \in Ip6Forms :
              SameAddress(f, ip) =>
                 WithoutIpText(ParseOfForm(f, call.arg), call.arg)
                     = WithoutIpText(ret.val, call.arg)

\* parse() has found the row of a listed IPv6 address that set() was given in
\* a long upper-case form
C12_Witness ==
    /\ ParsedIp6
    /\ ~call.arg.json
    /\ ip = ToLowerCase(Ip6ListedLong)
    /\ ip # Ip6Listed
    /\ SameAddress(ip, Ip6Listed)
    /\ ret.val.ip_address.ip_hostname = Lit("six.example")
    /\ ret.val.ip_address.ip = ip

-----------------------------------------------------------------------------
(* The result cache                                                        *)

\* a result of parse() without its cache flag
Unflag(v) == [k \in DOMAIN v \ {"from_cache", "fromCache"} |-> v[k]]

FlatOpts(opts) == ~opts.json

NestedFull(opts) == opts.json /\ opts.full

NestedCompact(opts) == opts.json /\ ~opts.full

\* a result that says that the cache served it
FlaggedTrue(v) ==
    \/ "from_cache" \in DOMAIN v /\ v.from_cache = TRUE
    \/ "fromCache" \in DOMAIN v /\ v.fromCache = TRUE

\* this step is a parse(opts) that follows a parse(opts) with the same options
\* on a connected handle with the cache enabled
SecondParse ==
    /\ call.op = "parse"
    /\ call'.op = "parse"
    /\ call'.arg = call.arg
    /\ db
    /\ cacheEnable

HeldEntry == cache[cacheIndex(cache, keyCache)].val

\* C14: once the cache is disabled every parse() computes fresh: it neither
\* reads nor writes the cache, does not throw, and returns the result computed
\* from the held inputs, whose cache flag is false (the nested compact shape
\* has no flag), also when the cache still holds an entry for the current
\* inputs that was served with the flag true.
C14_DisabledComputesFresh ==
    [][(call'.op = "parse" /\ db /\ ~cacheEnable) =>
         /\ cache' = cache
         /\ ~ret'.threw
         /\ ~ret'.hit
         /\ ret'.val = parseFresh(data, retUa, retIp, ua, ip, call'.arg)
         /\ ~FlaggedTrue(ret'.val)
         /\ FlatOpts(call'.arg) => ret'.val.from_cache = FALSE
         /\ NestedFull(call'.arg) => ret'.val.fromCache = FALSE]_vars

\* parse() has computed a flat result with the cache disabled while the cache
\* holds, under the key of the handle, an entry that it served with the flag
\* true
C14_Witness ==
    /\ call.op = "parse"
    /\ FlatOpts(call.arg)
    /\ ~cacheEnable
    /\ keyCache = Ip6 \o UaCrawler
    /\ cacheKeyExist(cache, keyCache)
    /\ "from_cache" \in DOMAIN HeldEntry
    /\ HeldEntry.from_cache = TRUE
    /\ ~ret.hit
    /\ ret.val.from_cache = FALSE
    /\ Unflag(ret.val) = Unflag(HeldEntry)

\* C16: cache write is first-write-wins: cacheWrite(key, value) for a key that
\* is present leaves the whole cache unchanged, and across any step a key that
\* stays in the cache keeps the value of its first write (a read sets its
\* cache flag, nothing else).
C16_FirstWriteWins ==
    [][/\ (call'.op = "cacheWrite" /\ cacheKeyExist(cache, call'.arg.key)) => cache' = cache
       /\ \A i \in DOMAIN cache : \A j \in DOMAIN cache' :
             cache'[j].key = cache[i].key =>
                /\ Unflag(cache'[j].val) = Unflag(cache[i].val)
                /\ call'.op = "cacheWrite" => cache'[j].val = cache[i].val]_vars

\* cacheWrite() has been called with a second value for a key that the cache
\* holds with the first one
C16_Witness ==
    /\ call.op = "cacheWrite"
    /\ call.arg.key = Lit("k")
    /\ call.arg.val = [note |-> Lit("second")]
    /\ cacheKeyExist(cache, Lit("k"))
    /\ cache[cacheIndex(cache, Lit("k"))].val = [note |-> Lit("first")]

\* C17: the cache is bounded: after every cacheWrite call returns, and after
\* every parse() with caching enabled, the number of cache entries does not
\* exceed the configured capacity, for any interleaving of setCacheSize, set,
\* parse, cacheWrite and cacheClean calls.
C17_Original ==
    (\/ call.op = "cacheWrite"
     \/ call.op = "parse" /\ db /\ cacheEnable) =>
        Len(cache) <= cacheMaxRecords

-----------------------------------------------------------------------------
(* set() and the cache key                                                 *)

\* the text of an input the handle holds, empty when it holds none
HeldText(t) == IF t = NullS \/ t = UndefS THEN EmptyStr ELSE t

\* the ip that a set() argument gives, if it gives one
GivenIp(arg) == {arg.props[i][2] : i \in {k \in DOMAIN arg.props : arg.props[k][1] = "ip"}}

-----------------------------------------------------------------------------
(* The IP classifier                                                       *)

\* the positions of the udger_ip_list rows of the address a
ListedRows(d, a) ==
    {i \in 1..Len(d["udger_ip_list"].data) :
        LET t == Cell(d, "udger_ip_list", d["udger_ip_list"].data[i], "ip")
        IN  IF getIpVersion(a) = 6 THEN SameAddress(t, a) ELSE t = a}

\* the positions of the datacenter range rows that contain the address a
ContainingRanges(d, a) ==
    IF getIpVersion(a) = 4
    THEN {i \in 1..Len(d["udger_datacenter_range"].data) :
            LET row == d["udger_datacenter_range"].data[i]
            IN  /\ Cell(d, "udger_datacenter_range", row, "iplong_from") <= ip2long(a)
                /\ ip2long(a) <= Cell(d, "udger_datacenter_range", row, "iplong_to")}
    ELSE IF getIpVersion(a) = 6
    THEN {i \in 1..Len(d["udger_datacenter_range6"].data) :
            LET row == d["udger_datacenter_range6"].data[i]
            IN  \A k \in 0..7 :
                  /\ Cell(d, "udger_datacenter_range6", row, "iplong_from" \o ToString(k))
                        <= inetPton(a)[k + 1]
                  /\ inetPton(a)[k + 1]
                        <= Cell(d, "udger_datacenter_range6", row, "iplong_to" \o ToString(k))}
    ELSE {}

\* the udger_datacenter_list row of the first range row that contains a
DatacenterOf(d, a) ==
    LET table == IF getIpVersion(a) = 4 THEN "udger_datacenter_range"
                 ELSE "udger_datacenter_range6"
        q     == d[table].data[Earliest(ContainingRanges(d, a))]
    IN  RowAt(d, "udger_datacenter_list", Cell(d, table, q, "datacenter_id"))

DatacenterFields == {"datacenter_name", "datacenter_name_code", "datacenter_homepage"}

\* C15: for an IP without a row in udger_ip_list the classification is
\* 'Unrecognized' / 'unrecognized'; for an IP with a row it is the one of the
\* row's class; in both cases, when a datacenter range contains the address,
\* the datacenter name, code and homepage are those of the first such range,
\* the same as over an empty udger_ip_list.
C15_UnlistedAndDatacenter ==
    call.op = "parseIp" =>
        LET a      == call.arg.ip
            rip    == ret.val.udger
            listed == ListedRows(data, a)
        IN  /\ listed = {} =>
                 /\ rip.ip_classification = Lit("Unrecognized")
                 /\ rip.ip_classification_code = Lit("unrecognized")
                 /\ ret.val.json[IF call.arg.opts.full THEN <<"classification", "code">>
                                 ELSE <<"classification">>] = Lit("unrecognized")
            /\ listed # {} =>
                 LET q   == data["udger_ip_list"].data[Earliest(listed)]
                     cls == RowAt(data, "udger_ip_class", Cell(data, "udger_ip_list", q, "class_id"))
                 IN  /\ rip.ip_classification = Cell(data, "udger_ip_class", cls, "ip_classification")
                     /\ rip.ip_classification_code
                           = Cell(data, "udger_ip_class", cls, "ip_classification_code")
            /\ ContainingRanges(data, a) # {} =>
                 /\ rip.datacenter_name
                       = Cell(data, "udger_datacenter_list", DatacenterOf(data, a), "name")
                 /\ rip.datacenter_name_code
                       = Cell(data, "udger_datacenter_list", DatacenterOf(data, a), "name_code")
                 /\ rip.datacenter_homepage
                       = Cell(data, "udger_datacenter_list", DatacenterOf(data, a), "homepage")
            /\ \A f \in DatacenterFields :
                 rip[f] = parseIp(WithTable(data, "udger_ip_list", <<>>), retIp, a,
                                  call.arg.opts).udger[f]

\* parseIp has returned for an IPv4 address that udger_ip_list does not hold
\* and that a datacenter range contains, over a list that holds another
\* address of the range
C15_Witness ==
    /\ call.op = "parseIp"
    /\ call.arg.ip = <<"1",".","2",".","3",".","5">>
    /\ data["udger_ip_list"].data # <<>>
    /\ ListedRows(data, call.arg.ip) = {}
    /\ ListedRows(data, Ip4) # {}
    /\ ContainingRanges(data, call.arg.ip) # {}
    /\ ContainingRanges(data, Ip4) = ContainingRanges(data, call.arg.ip)
    /\ ret.val.udger.ip_classification = Lit("Unrecognized")
    /\ ret.val.udger.datacenter_name = Lit("Example DC")

-----------------------------------------------------------------------------
(* The OS fallback and the device marketname                               *)

\* the positions of the udger_client_os_relation rows of a client id
RelationRows(d, clientId) ==
    {i \in 1..Len(d["udger_client_os_relation"].data) :
        Cell(d, "udger_client_os_relation", d["udger_client_os_relation"].data[i], "client_id")
            = clientId}

\* C19: when no OS pattern matches the UA and a client pattern matched, the OS
\* fields are those of the udger_os_list row referenced by the os_id of the
\* udger_client_os_relation row whose client_id is the matched client's id;
\* if the client has no relation row the OS fields stay empty.
C19_Original ==
    (/\ call.op = "parseUa"
     /\ Truthy(call.arg.ua)
     /\ CrawlerRowOf(data, call.arg.ua) = NoRow
     /\ MatchingRows(data, "udger_client_regex", call.arg.ua) # {}
     /\ MatchingRows(data, "udger_os_regex", call.arg.ua) = {}) =>
        LET client == FirstListRow(data, "udger_client_regex", "client_id",
                                   "udger_client_list", call.arg.ua)
            rel    == RelationRows(data, Cell(data, "udger_client_list", client, "id"))
            rua    == ret.val.udger
        IN  IF rel = {} THEN \A f \in OsFieldNames : rua[f] = EmptyStr
            ELSE LET q  == data["udger_client_os_relation"].data[Earliest(rel)]
                     os == RowAt(data, "udger_os_list",
                                 Cell(data, "udger_client_os_relation", q, "os_id"))
                 IN  /\ rua.os = Cell(data, "udger_os_list", os, "name")
                     /\ rua.os_code = Cell(data, "udger_os_list", os, "name_code")
                     /\ rua.os_family = Cell(data, "udger_os_list", os, "family")
                     /\ rua.os_family_code = Cell(data, "udger_os_list", os, "family_code")

\* the positions of the udger_devicename_regex rows of an OS family and an OS
DeviceNameCandidates(d, family, os) ==
    {i \in 1..Len(d["udger_devicename_regex"].data) :
        LET row == d["udger_devicename_regex"].data[i]
        IN  /\ Cell(d, "udger_devicename_regex", row, "os_family_code") = family
            /\ Cell(d, "udger_devicename_regex", row, "os_code") \in {Lit("-all-"), os}}

\* what the pattern of the row at position i captures in u
DeviceNameCapture(d, u, i) ==
    JsMatch(u, phpRegexpToJs(Cell(d, "udger_devicename_regex",
                                  d["udger_devicename_regex"].data[i], "regstring")))

\* the candidates whose pattern matches u with a non-empty group 1
DeviceNameHits(d, u, family, os) ==
    {i \in DeviceNameCandidates(d, family, os) :
        /\ DeviceNameCapture(d, u, i).found
        /\ DeviceNameCapture(d, u, i).g1 # UndefS
        /\ DeviceNameCapture(d, u, i).g1 # EmptyStr}

\* the positions of the udger_devicename_list rows of a pattern id and a code
DeviceNameEntries(d, id, code) ==
    {j \in 1..Len(d["udger_devicename_list"].data) :
        LET row == d["udger_devicename_list"].data[j]
        IN  /\ Cell(d, "udger_devicename_list", row, "regex_id") = id
            /\ Cell(d, "udger_devicename_list", row, "code") = code}

\* C20: in the device marketname stage the candidates are the device name
\* patterns of the known os_family_code whose os_code is '-all-' or the known
\* one, in table order; the first whose regex matches with a non-empty group 1
\* fixes the key (its id, group 1 trimmed); marketname and brand are those of
\* the device name entry with that pair, and when there is none the fields
\* stay empty whatever later candidates would give.
C20_MarketnameLookup ==
    (call.op = "parseUa" /\ Truthy(call.arg.ua) /\ Truthy(ret.val.udger.os_family_code)) =>
        LET u    == call.arg.ua
            rua  == ret.val.udger
            hits == DeviceNameHits(data, u, rua.os_family_code, rua.os_code)
            none == \A f \in DeviceNameFields : rua[f] = EmptyStr
        IN  IF hits = {} THEN none
            ELSE LET first   == data["udger_devicename_regex"].data[Earliest(hits)]
                     entries == DeviceNameEntries(data,
                                    Cell(data, "udger_devicename_regex", first, "id"),
                                    Trim(DeviceNameCapture(data, u, Earliest(hits)).g1))
                 IN  IF entries = {} THEN none
                     ELSE LET entry == data["udger_devicename_list"].data[Earliest(entries)]
                              brand == RowAt(data, "udger_devicename_brand",
                                             Cell(data, "udger_devicename_list", entry, "brand_id"))
                          IN  /\ rua.device_marketname
                                    = Cell(data, "udger_devicename_list", entry, "marketname")
                              /\ rua.device_brand
                                    = Cell(data, "udger_devicename_brand", brand, "brand")
                              /\ rua.device_brand_code
                                    = Cell(data, "udger_devicename_brand", brand, "brand_code")
                              /\ rua.device_brand_homepage
                                    = Cell(data, "udger_devicename_brand", brand, "brand_url")

\* parseUa has left the marketname empty for a Windows 7 string: the first
\* candidate that matches has no entry for the captured code, the next
\* candidate matches too and has one
C20_Witness ==
    /\ call.op = "parseUa"
    /\ call.arg.ua = UaOsOnly
    /\ ret.val.udger.os_code = Lit("windows_7")
    /\ Len(data["udger_devicename_regex"].data) = 2
    /\ DeviceNameHits(data, UaOsOnly, Lit("windows"), Lit("windows_7")) = {1, 2}
    /\ DeviceNameEntries(data, Cell(data, "udger_devicename_regex",
                                    data["udger_devicename_regex"].data[1], "id"),
                         Trim(DeviceNameCapture(data, UaOsOnly, 1).g1)) = {}
    /\ DeviceNameEntries(data, Cell(data, "udger_devicename_regex",
                                    data["udger_devicename_regex"].data[2], "id"),
                         Trim(DeviceNameCapture(data, UaOsOnly, 2).g1)) # {}
    /\ ret.val.udger.device_marketname = EmptyStr
    /\ ret.val.udger.device_brand = EmptyStr

-----------------------------------------------------------------------------
(* Texts that are no address                                               *)

\* C21: for a text that is neither an IPv4 nor an IPv6 address parseIp
\* reports the version as unknown and fills only the echoed input: every other
\* flat field stays as in the template (no list row, no classification,
\* 'Unrecognized' included, no datacenter) and the nested result holds the
\* input and, with full, the version only.
C21_Original ==
    (call.op = "parseIp" /\ getIpVersion(call.arg.ip) = 0) =>
        /\ ret.val.udger.ip = call.arg.ip
        /\ ret.val.udger.ip_ver = IpVerUnknown
        /\ \A f \in DOMAIN ret.val.udger \ {"ip", "ip_ver"} : ret.val.udger[f] = retIp[f]
        /\ DOMAIN ret.val.json \subseteq {<<"ip">>, <<"version">>}

-----------------------------------------------------------------------------
(* The datacenter ranges                                                   *)

\* the width of a version 4 range row
RangeWidth(d, row) ==
    Cell(d, "udger_datacenter_range", row, "iplong_to")
        - Cell(d, "udger_datacenter_range", row, "iplong_from")

\* C22: the datacenter of an address is the one of the first row, in table
\* order, of udger_datacenter_range (version 4: from <= value <= to) or of
\* udger_datacenter_range6 (version 6: each of the eight groups within its
\* from_i..to_i) that contains the address, whatever rows follow it; an
\* address that no row contains has empty datacenter fields and no datacenter
\* in the nested result.
C22_FirstContainingRange ==
    call.op = "parseIp" =>
        LET a    == call.arg.ip
            rip  == ret.val.udger
            json == ret.val.json
            opts == call.arg.opts
            S    == ContainingRanges(data, a)
        IN  /\ S # {} =>
                 LET dc == DatacenterOf(data, a)
                 IN  /\ rip.datacenter_name = Cell(data, "udger_datacenter_list", dc, "name")
                     /\ rip.datacenter_name_code
                           = Cell(data, "udger_datacenter_list", dc, "name_code")
                     /\ rip.datacenter_homepage
                           = Cell(data, "udger_datacenter_list", dc, "homepage")
                     /\ opts.full =>
                          json[<<"datacenter", "name">>]
                             = Cell(data, "udger_datacenter_list", dc, "name")
                     /\ ~opts.full =>
                          json[<<"datacenter">>]
                             = Cell(data, "udger_datacenter_list", dc, "name_code")
            /\ S = {} =>
                 /\ \A f \in DatacenterFields : rip[f] = EmptyStr
                 /\ \A path \in DOMAIN json : path[1] # "datacenter"

\* parseIp has returned the datacenter of the wide range for an address on the
\* lower bound of the narrow range that follows it in the table (version 4),
\* or for the one address of the narrow range (version 6)
C22_Witness ==
    /\ call.op = "parseIp"
    /\ Cardinality(ContainingRanges(data, call.arg.ip)) = 2
    /\ ret.val.udger.datacenter_name = Lit("Example DC")
    /\ \/ /\ call.arg.ip = Ip4
          /\ RangeWidth(data, data["udger_datacenter_range"].data[2])
                < RangeWidth(data, data["udger_datacenter_range"].data[1])
          /\ Cell(data, "udger_datacenter_range", data["udger_datacenter_range"].data[2],
                  "iplong_from") = ip2long(Ip4)
       \/ /\ call.arg.ip = Ip6
          /\ Cell(data, "udger_datacenter_range6", data["udger_datacenter_range6"].data[2],
                  "iplong_to7") = 1

-----------------------------------------------------------------------------
(* The nested result as a projection of the flat one                       *)

\* the flat field a path of the nested result (full) is named after
NestedNames ==
    << <<<<"ua", "version", "current">>, "ua_version">>,
       <<<<"ua", "version", "major">>, "ua_version_major">>,
       <<<<"ua", "family", "name">>, "ua_family">>,
       <<<<"ua", "family", "code">>, "ua_family_code">>,
       <<<<"ua", "family", "homepage">>, "ua_family_homepage">>,
       <<<<"ua", "family", "vendor", "name">>, "ua_family_vendor">>,
       <<<<"ua", "family", "vendor", "code">>, "ua_family_vendor_code">>,
       <<<<"ua", "family", "vendor", "homepage">>, "ua_family_vendor_homepage">>,
       <<<<"crawler", "respectRobotsTxt">>, "crawler_respect_robotstxt">> >>

\* C23: with full set, every value of the nested result equals the flat field
\* it is named after: ua.version.current is ua_version, ua.version.major is
\* ua_version_major, ua.family.vendor.homepage is ua_family_vendor_homepage,
\* crawler.respectRobotsTxt is crawler_respect_robotstxt, and so on for the
\* family and vendor paths.
C23_Original ==
    (call.op \in {"parseUa", "parseIp"} /\ call.arg.opts.full) =>
        \A i \in DOMAIN NestedNames :
            NestedNames[i][1] \in DOMAIN ret.val.json =>
                ret.val.json[NestedNames[i][1]] = ret.val.udger[NestedNames[i][2]]

-----------------------------------------------------------------------------
(* The fields of the flat result                                           *)

\* every field of names is present in the flat section rec and holds a value
\* (neither undefined nor null)
AllFieldsSet(rec, names) ==
    \A f \in names : f \in DOMAIN rec /\ rec[f] # UndefS /\ rec[f] # NullS

\* C24: in the flat result every field of the user-agent section and of the IP
\* section is present and holds a string, the empty string when unset, never
\* null, undefined or absent: for parse() in every state of the open handle,
\* before and after set(), and for parseUa() over every dataset.
C24_Original ==
    /\ (call.op = "parse" /\ db /\ ~ret.threw /\ ~call.arg.json) =>
          /\ AllFieldsSet(PropS(ret.val, "user_agent"), UaFields)
          /\ AllFieldsSet(PropS(ret.val, "ip_address"), IpFields)
    /\ call.op = "parseUa" => AllFieldsSet(ret.val.udger, UaFields)

-----------------------------------------------------------------------------
(* What a classification leaves alone                                      *)

\* the step is a call of parse()
ParseStep == call'.op = "parse" /\ ncalls' = ncalls + 1

\* C25: parse() changes neither the dataset tables, nor the held ua and ip,
\* nor the cache key, nor the templates, nor the connection and the cache
\* settings, and with caching disabled not the cache either; a parse(opts)
\* that follows a parse(opts) with caching disabled returns an equal value.
C25_ParseIsPure ==
    [][ParseStep =>
          /\ data' = data
          /\ ua' = ua /\ ip' = ip
          /\ keyCache' = keyCache
          /\ retUa' = retUa /\ retIp' = retIp
          /\ db' = db /\ cacheEnable' = cacheEnable /\ cacheMaxRecords' = cacheMaxRecords
          /\ ~cacheEnable => cache' = cache
          /\ (call.op = "parse" /\ call.arg = call'.arg /\ ~cacheEnable) => ret'.val = ret.val]_vars

\* parse() has classified a user agent and an address with caching disabled,
\* after at least two earlier calls, and the templates still are the ones set()
\* loaded
C25_Witness ==
    /\ call.op = "parse"
    /\ db /\ ~cacheEnable /\ ncalls >= 3
    /\ ua = UaClient /\ ip = Ip4
    /\ ~call.arg.json
    /\ ret.val.user_agent.ua_class_code = Lit("browser")
    /\ ret.val.ip_address.ip_classification_code = Lit("crawler")
    /\ retUa = defaultRet.user_agent
    /\ retIp = defaultRet.ip_address

-----------------------------------------------------------------------------
(* The cache and the values it serves                                      *)

\* C26: whenever parse(opts) is served from the cache, the value returned
\* equals, apart from the cache flag, the one parse(opts) computes fresh for
\* the ua and ip the handle holds and the same opts, whatever calls of set,
\* setCacheEnable, setCacheSize, cacheClean and parse came before.
C26_Original ==
    (call.op = "parse" /\ ret.hit) =>
        Unflag(ret.val) = Unflag(parseFresh(data, retUa, retIp, ua, ip, call.arg))

-----------------------------------------------------------------------------
(* The eviction loop of cacheWrite, one iteration a step                   *)
(*                                                                         *)
(* evict above gives the outcome of the loop for a capacity of 0 or more.  *)
(* Here the loop runs step by step, for every capacity, so that a run      *)
(* that never leaves it is a behaviour of the specification.  While the    *)
(* loop runs, ret holds a field pc; no other method starts before the call *)
(* has returned.  parse() enters the same loop through the cacheWrite of   *)
(* line 1014.                                                              *)

\* the capacities setCacheSize() is called with
EvictSizes == {0 - 1, 0, 1}

\* a call is inside the while loop of cacheWrite
InLoop == "pc" \in DOMAIN ret

\* cacheWrite(key, data) up to the loop: lines 206-211
CacheWriteEnter(key, val) ==
    /\ ~InLoop
    /\ Called("cacheWrite", [key |-> key, val |-> val])
    /\ IF cacheKeyExist(cache, key)
       THEN /\ cache' = cache
            /\ ret' = Returned(UndefS)
       ELSE /\ cache' = Append(cache, [key |-> key, val |-> val])
            /\ ret' = [threw |-> FALSE, val |-> UndefS, hit |-> FALSE, pc |-> "test"]
    /\ UNCHANGED <<db, ua, ip, cacheEnable, cacheMaxRecords, keyCache, retUa, retIp,
                   data, setCalled>>

\* line 220, the loop condition: on to the body while there are more keys than
\* this.cacheMaxRecords, else the call returns
EvictTest ==
    /\ InLoop
    /\ ret.pc = "test"
    /\ ret' = IF Len(cache) > cacheMaxRecords THEN [ret EXCEPT !.pc = "delete"]
              ELSE Returned(ret.val)
    /\ UNCHANGED <<db, ua, ip, cacheEnable, cacheMaxRecords, cache, keyCache, retUa, retIp,
                   data, call, ncalls, setCalled>>

\* line 222, the loop body: delete this.cache[Object.keys(this.cache)[0]],
\* which deletes nothing when the cache has no key
EvictStep ==
    /\ InLoop
    /\ ret.pc = "delete"
    /\ cache' = IF cache = <<>> THEN cache ELSE Tail(cache)
    /\ ret' = [ret EXCEPT !.pc = "test"]
    /\ UNCHANGED <<db, ua, ip, cacheEnable, cacheMaxRecords, keyCache, retUa, retIp,
                   data, call, ncalls, setCalled>>

NextEvict ==
    \/ \E n \in EvictSizes : ~InLoop /\ SetCacheSize(n)
    \/ \E key \in CacheKeys, val \in CacheValues : CacheWriteEnter(key, val)
    \/ EvictTest
    \/ EvictStep

\* a call that is inside the loop goes on running
SpecEvict == Init /\ [][NextEvict]_vars /\ WF_vars(EvictTest) /\ WF_vars(EvictStep)

\* C27: cacheWrite always terminates: for every capacity given to
\* setCacheSize, 0 and negative numbers included, and every cache content, a
\* call that has entered the eviction loop leaves it, so cacheWrite(), and
\* with it a parse() with caching enabled, returns.
C27_Original == InLoop ~> ~InLoop

-----------------------------------------------------------------------------
(* Serving from the cache                                                  *)

\* C28: a parse() that is served from the cache leaves the content of the
\* cache as it was: the stored entry, which is the object an earlier parse()
\* returned with its cache flag false, is not modified.
C28_Original == [][(ParseStep /\ ret'.hit) => cache' = cache]_vars

-----------------------------------------------------------------------------
(* The inputs set() leaves alone                                           *)

\* the argument of set() names the input k
Names(arg, k) == \E i \in DOMAIN arg.props : arg.props[i][1] = k

=============================================================================
